---- MODULE Spec2Model ----
(***************************************************************************)
(* A model of the PDF extraction service (services/python-extractor):     *)
(*   - performance_utils.CacheManager and the process-wide cache_manager, *)
(*   - SimplePDFExtractor.analyze_pdf_structure (content-addressed cache),*)
(*   - SimplePDFExtractor.extract_text_from_pdf / _repair_and_retry,      *)
(*   - LangExtractStyleExtractor.extract_from_base64.                     *)
(* Confidences are fixed-point numbers scaled by Scale.                   *)
(***************************************************************************)
EXTENDS Integers, Sequences, FiniteSets, TLC

(* ------------------------------ bounds -------------------------------- *)
\* largest max_size a CacheManager is constructed with
MaxSize == 2
\* number of get/put/clear/analyze calls in one behaviour of the cache
MaxOps == 4
\* request threads calling the shared cache_manager at once
NumThreads == 2
\* largest page count of a document
MaxPages == 15
\* largest number of records the structured extractor finds in a text
MaxTxns == 2
\* page p of a document behaves like slot p % NumSlots of its description
NumSlots == 2

\* the words or lines of a generated text
MaxItems == 3
\* the groups of three digits of a generated amount
MaxGroups == 1
\* the cue words of a generated transaction line
MaxCues == 2
\* the rows of a generated text of transactions
MaxRows == 2

(* -------------------------- program constants ------------------------- *)
text_repair_attempts == 3
encoding_fallbacks == <<"utf-8", "latin-1", "cp1252", "ascii">>
max_chars == 100000
\* CacheManager.__init__(max_size = 100): the process-wide cache_manager
default_max_size == 100
Scale == 10 ^ 6

\* Python's None and the absence of an exception; a value x that may be None
\* is carried as Some(x)
None == <<>>
Some(x) == <<x>>
NoExc == "none"
\* the cache keys callers use: one more than the largest capacity
NumKeys == MaxSize + 1
Keys == 1 .. NumKeys

Range(s) == {s[i] : i \in DOMAIN s}

Min(a, b) == IF a < b THEN a ELSE b
Max(a, b) == IF a > b THEN a ELSE b

(* ------------------------------ documents ----------------------------- *)
\* What the rendering backend does with a page: load/extract raises, the
\* page yields "", whitespace only, ordinary text, or more than max_chars.
PageKinds == {"fail", "empty", "blank", "text", "big"}

\* A document (the bytes of pdf_content) is described by what the backend
\* does with it: whether fitz.open accepts it, whether it accepts the bytes
\* _clean_pdf_content makes of it, its page count, what each page yields,
\* and what the structure analysis sees on its pages.
Slots == 0 .. NumSlots - 1
PagePatterns == [Slots -> PageKinds]

Document(page_count, opens, cleaned_opens, kinds, images, fonts, blocks, size_kb) ==
    [page_count |-> page_count, opens |-> opens,
     cleaned_opens |-> cleaned_opens, kinds |-> kinds, images |-> images,
     fonts |-> fonts, blocks |-> blocks, size_kb |-> size_kb]

AllText == [s \in Slots |-> "text"]

KindOf(doc, page_num) == doc.kinds[page_num % NumSlots]

\* len(page_text) for a page of the given kind
TextLen(kind) ==
    CASE kind = "empty" -> 0
      [] kind = "blank" -> 2
      [] kind = "text"  -> 1500
      [] kind = "big"   -> max_chars + 1
      [] OTHER          -> 0

\* bool(page_text.strip())
HasVisibleText(kind) == kind \in {"text", "big"}

(* ---------------------------- CacheManager ---------------------------- *)
\* A CacheManager is a record [max_size, cache, access_order, cache_stats];
\* cache is a function on the stored keys.  Every method is an operator
\* from the manager (and its arguments) to the manager afterwards, the
\* value returned and the exception raised (None: none).

CacheManager(max_size) ==
    [max_size     |-> max_size,
     cache        |-> <<>>,
     access_order |-> <<>>,
     cache_stats  |-> [hits |-> 0, misses |-> 0, evictions |-> 0]]

\* list.remove(x): drops the first occurrence
ListRemove(s, x) ==
    LET i == CHOOSE j \in DOMAIN s : s[j] = x /\ \A h \in 1 .. j - 1 : s[h] # x
    IN  SubSeq(s, 1, i - 1) \o SubSeq(s, i + 1, Len(s))

\* del d[k]
DictDel(d, k) == [j \in DOMAIN d \ {k} |-> d[j]]

\* d[k] = v
DictSet(d, k, v) == [j \in DOMAIN d \cup {k} |-> IF j = k THEN v ELSE d[j]]

Returned(cm, value) == [cm |-> cm, result |-> value, exc |-> NoExc]
Raised(cm, exc) == [cm |-> cm, result |-> None, exc |-> exc]

\* get that reads the value without moving the key in access_order
get_without_touch(cm, key) ==
    IF key \in DOMAIN cm.cache
    THEN Returned([cm EXCEPT !.cache_stats.hits = @ + 1], Some(cm.cache[key]))
    ELSE Returned([cm EXCEPT !.cache_stats.misses = @ + 1], None)

get(cm, key) ==
    IF key \in DOMAIN cm.cache
    THEN IF key \notin Range(cm.access_order)
         THEN Raised(cm, "ValueError")
         ELSE Returned(
                [cm EXCEPT !.access_order = Append(ListRemove(@, key), key),
                           !.cache_stats.hits = @ + 1],
                Some(cm.cache[key]))
    ELSE Returned([cm EXCEPT !.cache_stats.misses = @ + 1], None)

_evict_lru(cm) ==
    IF cm.access_order # <<>>
    THEN LET lru_key == Head(cm.access_order)
             popped  == [cm EXCEPT !.access_order = Tail(@)]
         IN  IF lru_key \in DOMAIN cm.cache
             THEN [popped EXCEPT !.cache = DictDel(@, lru_key),
                                 !.cache_stats.evictions = @ + 1]
             ELSE popped
    ELSE cm

clear(cm) == [cm EXCEPT !.cache = <<>>, !.access_order = <<>>]

\* put that evicts only when the manager is over capacity
put_evicting_late(cm, key, value, memory_exceeded) ==
    LET evicted == IF Cardinality(DOMAIN cm.cache) > cm.max_size
                   THEN _evict_lru(cm) ELSE cm
        cleared == IF memory_exceeded THEN clear(evicted) ELSE evicted
        stored  == [cleared EXCEPT !.cache = DictSet(@, key, value)]
    IN  [stored EXCEPT !.access_order =
            Append(IF key \in Range(@) THEN ListRemove(@, key) ELSE @, key)]

\* put that checks the memory threshold after storing the entry
put_clearing_last(cm, key, value, memory_exceeded) ==
    LET evicted == IF Cardinality(DOMAIN cm.cache) >= cm.max_size
                   THEN _evict_lru(cm) ELSE cm
        stored  == [evicted EXCEPT !.cache = DictSet(@, key, value)]
        ordered == [stored EXCEPT !.access_order =
            Append(IF key \in Range(@) THEN ListRemove(@, key) ELSE @, key)]
    IN  IF memory_exceeded THEN clear(ordered) ELSE ordered

\* memory_exceeded: MemoryManager.check_memory_limit(max_memory_mb), which
\* reads the resident set size of the process
put(cm, key, value, memory_exceeded) ==
    LET evicted == IF Cardinality(DOMAIN cm.cache) >= cm.max_size
                   THEN _evict_lru(cm) ELSE cm
        cleared == IF memory_exceeded THEN clear(evicted) ELSE evicted
        stored  == [cleared EXCEPT !.cache = DictSet(@, key, value)]
    IN  [stored EXCEPT !.access_order =
            Append(IF key \in Range(@) THEN ListRemove(@, key) ELSE @, key)]

(* ----------------------- analyze_pdf_structure ------------------------ *)
\* hashlib.md5(pdf_content).hexdigest(), as the cache key it is used for:
\* a function of the bytes alone, under which distinct documents may
\* collide.
KindCode(kind) ==
    CASE kind = "fail" -> 0 [] kind = "empty" -> 1 [] kind = "blank" -> 2
      [] kind = "text" -> 3 [] OTHER -> 4

RECURSIVE KindSum(_, _)
KindSum(doc, s) ==
    IF s < 0 THEN 0 ELSE (s + 1) * KindCode(doc.kinds[s]) + KindSum(doc, s - 1)

content_hash(doc) ==
    ((doc.page_count + doc.fonts + doc.blocks + doc.size_kb
        + (IF doc.opens THEN 0 ELSE 1) + (IF doc.images THEN 1 ELSE 0)
        + KindSum(doc, NumSlots - 1))
       % NumKeys) + 1

sample_count(doc) == Min(3, doc.page_count)

\* the sampled pages whose analysis did not raise
analysed_pages(doc) ==
    {p \in 0 .. sample_count(doc) - 1 : KindOf(doc, p) # "fail"}

\* total_text_length: len(page_text) summed over the analysed pages
RECURSIVE total_text_length(_, _)
total_text_length(doc, pages) ==
    IF pages = {} THEN 0
    ELSE LET p == CHOOSE q \in pages : TRUE
         IN  TextLen(KindOf(doc, p)) + total_text_length(doc, pages \ {p})

RECURSIVE TimesSevenTenths(_, _)
TimesSevenTenths(x, n) ==
    IF n = 0 THEN x ELSE TimesSevenTenths((x * 7) \div 10, n - 1)

error_analysis ==
    [page_count            |-> 0,
     layout_complexity     |-> "unknown",
     has_images            |-> FALSE,
     font_count            |-> 0,
     is_searchable         |-> TRUE,
     extraction_confidence |-> Scale \div 2]

\* the analysis computed on a document that opens (extractor.py 266-351)
computed_analysis(doc) ==
    LET pages        == analysed_pages(doc)
        unsearchable == {p \in pages : ~HasVisibleText(KindOf(doc, p))}
        with_spans   == {p \in pages : KindOf(doc, p) # "empty"}
        has_images   == doc.images /\ pages # {}
        text_length  == total_text_length(doc, pages)
        total_blocks == doc.blocks * Cardinality(pages)
        has_complex_layout == pages # {} /\ doc.blocks > 10
        font_count   == IF with_spans = {} THEN 0 ELSE doc.fonts
        is_searchable == unsearchable = {}
        layout == IF has_complex_layout \/ font_count > 5 \/ has_images
                  THEN "complex"
                  ELSE IF font_count > 2 \/ total_blocks > sample_count(doc) * 3
                       THEN "moderate" ELSE "simple"
        low_density == text_length < 10 * Max(doc.size_kb, 1)
        per_page == TimesSevenTenths((9 * Scale) \div 10, Cardinality(unsearchable))
        confidence == IF ~is_searchable THEN (per_page * 6) \div 10
                      ELSE IF layout = "complex" THEN (per_page * 8) \div 10
                      ELSE IF low_density THEN (per_page * 7) \div 10
                      ELSE per_page
    IN  [page_count            |-> doc.page_count,
         layout_complexity     |-> layout,
         has_images            |-> has_images,
         font_count            |-> font_count,
         is_searchable         |-> is_searchable,
         extraction_confidence |-> confidence]

\* a cached analysis is a non-empty dict: `if cached_result:` is a hit test
Truthy(value) == value # None

\* the analysis that returns error_analysis without caching it
analyze_pdf_structure_errors_uncached(cm, doc, memory_exceeded) ==
    LET key    == content_hash(doc)
        looked == get(cm, key)
    IN  IF looked.exc # NoExc
        THEN [cm |-> looked.cm, result |-> None, exc |-> looked.exc,
              hit |-> FALSE, opened |-> FALSE]
        ELSE IF Truthy(looked.result)
        THEN [cm |-> looked.cm, result |-> looked.result, exc |-> NoExc,
              hit |-> TRUE, opened |-> FALSE]
        ELSE IF doc.opens
        THEN [cm |-> put(looked.cm, key, computed_analysis(doc), memory_exceeded),
              result |-> Some(computed_analysis(doc)), exc |-> NoExc,
              hit |-> FALSE, opened |-> TRUE]
        ELSE [cm |-> looked.cm, result |-> Some(error_analysis), exc |-> NoExc,
              hit |-> FALSE, opened |-> TRUE]

\* [cm, result, exc, hit, opened]: the manager afterwards, the analysis
\* returned, whether the lookup hit and whether the document was opened
analyze_pdf_structure(cm, doc, memory_exceeded) ==
    LET key    == content_hash(doc)
        looked == get(cm, key)
    IN  IF looked.exc # NoExc
        THEN [cm |-> looked.cm, result |-> None, exc |-> looked.exc,
              hit |-> FALSE, opened |-> FALSE]
        ELSE IF Truthy(looked.result)
        THEN [cm |-> looked.cm, result |-> looked.result, exc |-> NoExc,
              hit |-> TRUE, opened |-> FALSE]
        ELSE LET analysis == IF doc.opens THEN computed_analysis(doc)
                             ELSE error_analysis
             IN  [cm |-> put(looked.cm, key, analysis, memory_exceeded),
                  result |-> Some(analysis), exc |-> NoExc,
                  hit |-> FALSE, opened |-> TRUE]

(* ------------------------------ str and re ---------------------------- *)
\* F(v) for a value v that is computed first and then used under a name
With(v, F(_)) == CASE v = v -> F(v)
With2(a, b, F(_, _)) == CASE a = a /\ b = b -> F(a, b)
With3(a, b, c, F(_, _, _)) == CASE a = a /\ b = b /\ c = c -> F(a, b, c)

\* Python str values are TLA+ strings; a character is a string of length 1.
CharAt(s, i) == SubSeq(s, i, i)
Chars(s) == {CharAt(s, i) : i \in 1 .. Len(s)}

ascii_lowercase == "abcdefghijklmnopqrstuvwxyz"
ascii_uppercase == "ABCDEFGHIJKLMNOPQRSTUVWXYZ"
digits == "0123456789"

Digit == Chars(digits)
\* \w and \s of the re module, on ASCII text
Word == Digit \cup Chars(ascii_uppercase) \cup Chars(ascii_lowercase) \cup {"_"}
Space == {" ", "\t", "\n", "\r", "\f"}

IndexOf(s, c) == CHOOSE i \in 1 .. Len(s) : CharAt(s, i) = c

LowerChar(c) == IF c \in Chars(ascii_uppercase) THEN CharAt(ascii_lowercase, IndexOf(ascii_uppercase, c)) ELSE c
UpperChar(c) == IF c \in Chars(ascii_lowercase) THEN CharAt(ascii_uppercase, IndexOf(ascii_lowercase, c)) ELSE c

\* str.lower(), computed on the two halves of s
RECURSIVE lower(_)
lower(s) ==
    IF Len(s) <= 1 THEN (IF s = "" THEN "" ELSE LowerChar(s))
    ELSE lower(SubSeq(s, 1, Len(s) \div 2))
            \o lower(SubSeq(s, Len(s) \div 2 + 1, Len(s)))

\* sub in s
Contains(s, sub) ==
    \E i \in 1 .. Len(s) - Len(sub) + 1 : SubSeq(s, i, i + Len(sub) - 1) = sub

\* s.count(sub): the occurrences found left to right without overlap
Least(S) == CHOOSE i \in S : \A j \in S : i <= j
Greatest(S) == CHOOSE i \in S : \A j \in S : i >= j

\* the places from i on at which sub occurs in s
Occurrences(s, sub, i) ==
    {j \in i .. Len(s) - Len(sub) + 1 : SubSeq(s, j, j + Len(sub) - 1) = sub}

count(s, sub) ==
    LET RECURSIVE CountFrom(_)
        CountFrom(i) ==
            IF Occurrences(s, sub, i) = {} THEN 0
            ELSE 1 + CountFrom(Least(Occurrences(s, sub, i)) + Len(sub))
    IN  CountFrom(1)

\* s.strip(chars)
StripOf(s, chars) ==
    LET kept == {i \in 1 .. Len(s) : CharAt(s, i) \notin chars}
    IN  IF kept = {} THEN ""
        ELSE SubSeq(s, Least(kept), Greatest(kept))

\* s.strip()
strip(s) == StripOf(s, Space)

\* s.split('\n')
split_lines(s) ==
    LET RECURSIVE SplitFrom(_)
        SplitFrom(start) ==
            IF Occurrences(s, "\n", start) = {} THEN <<SubSeq(s, start, Len(s))>>
            ELSE LET i == Least(Occurrences(s, "\n", start))
                 IN  <<SubSeq(s, start, i - 1)>> \o SplitFrom(i + 1)
    IN  SplitFrom(1)

\* s.replace(old, '')
Without(s, old) ==
    LET RECURSIVE RemoveFrom(_)
        RemoveFrom(start) ==
            IF Occurrences(s, old, start) = {} THEN SubSeq(s, start, Len(s))
            ELSE LET i == Least(Occurrences(s, old, start))
                 IN  SubSeq(s, start, i - 1) \o RemoveFrom(i + Len(old))
    IN  RemoveFrom(1)

\* ' '.join(lines)
RECURSIVE join(_, _)
join(sep, lines) ==
    IF lines = <<>> THEN ""
    ELSE IF Len(lines) = 1 THEN lines[1]
    ELSE lines[1] \o sep \o join(sep, Tail(lines))

\* int(s) for a string of decimal digits
RECURSIVE int(_)
int(s) ==
    IF s = "" THEN 0
    ELSE 10 * int(SubSeq(s, 1, Len(s) - 1)) + (IndexOf(digits, CharAt(s, Len(s))) - 1)

\* float(s), in hundredths, for digits with at most two decimals
float(s) ==
    IF Contains(s, ".")
    THEN LET dot  == IndexOf(s, ".")
             frac == SubSeq(s, dot + 1, Len(s))
         IN  100 * int(SubSeq(s, 1, dot - 1))
               + (IF Len(frac) = 1 THEN 10 * int(frac) ELSE int(frac))
    ELSE 100 * int(s)

\* the decimal digits of n, zero-padded to at least `width` characters
RECURSIVE Decimal(_, _)
Decimal(n, width) ==
    IF n < 10 /\ width <= 1 THEN CharAt(digits, n + 1)
    ELSE Decimal(n \div 10, width - 1) \o CharAt(digits, (n % 10) + 1)

(* patterns: the syntax tree sre_parse builds for a regular expression *)
Unbounded == 1000000  \* MAXREPEAT
Node ==
    [op |-> "", chars |-> {}, text |-> "", ignore_case |-> FALSE,
     items |-> <<>>, min |-> 0, max |-> 0, group |-> 0]

In(chars) == [Node EXCEPT !.op = "in", !.chars = chars]
\* a sequence of items; the items of a sequence within it are its own
RECURSIVE Spliced(_)
Spliced(items) ==
    IF items = <<>> THEN <<>>
    ELSE (IF Head(items).op = "cat" THEN Head(items).items ELSE <<Head(items)>>)
            \o Spliced(Tail(items))
Cat(items) == [Node EXCEPT !.op = "cat", !.items = Spliced(items)]
Alt(items) == [Node EXCEPT !.op = "alt", !.items = items]
Repeat(item, min, max) ==
    [Node EXCEPT !.op = "repeat", !.items = <<item>>, !.min = min, !.max = max]
Opt(item) == Repeat(item, 0, 1)
Star(item) == Repeat(item, 0, Unbounded)
Plus(item) == Repeat(item, 1, Unbounded)
\* a capturing group: a mark where it opens, the item, a mark where it closes
Mark(n) == [Node EXCEPT !.op = "mark", !.group = n]
MarkEnd(n) == [Node EXCEPT !.op = "mark_end", !.group = n]
Group(n, item) == Cat(<<Mark(n), item, MarkEnd(n)>>)
WordBoundary == [Node EXCEPT !.op = "boundary"]
AtStart == [Node EXCEPT !.op = "at_beginning"]
\* a literal string, and the same under re.IGNORECASE
Lit(s) == [Node EXCEPT !.op = "literal", !.text = s]
LitI(s) == [Node EXCEPT !.op = "literal", !.text = lower(s), !.ignore_case = TRUE]
AltI(words) == Alt([i \in 1 .. Len(words) |-> LitI(words[i])])

\* a position of the matcher: the index of the next character and the
\* spans of the groups closed so far
NumGroups == 3
NoSpan == <<>>
At(pos) == [pos |-> pos, spans |-> SubSeq(<<NoSpan, NoSpan, NoSpan>>, 1, NumGroups)]

\* the places <<i, j>> of the elements lists[i][j], and their order
Places(lists) == UNION {{<<i, j>> : j \in DOMAIN lists[i]} : i \in DOMAIN lists}
Before(a, b) == a[1] < b[1] \/ (a[1] = b[1] /\ a[2] < b[2])

\* the sequences of seqs joined
chain(seqs) ==
    LET places == Places(seqs)
    IN  [k \in 1 .. Cardinality(places) |->
            LET a == CHOOSE a \in places : Cardinality({b \in places : Before(b, a)}) = k - 1
            IN  seqs[a[1]][a[2]]]

\* the sequences of `lists` one after the other, without the repetitions
\* of their elements
Merged(lists) ==
    LET places == Places(lists)
        first == {a \in places : \A b \in places :
                     Before(b, a) => lists[b[1]][b[2]] # lists[a[1]][a[2]]}
    IN  [k \in 1 .. Cardinality(first) |->
            LET a == CHOOSE a \in first : Cardinality({b \in first : Before(b, a)}) = k - 1
            IN  lists[a[1]][a[2]]]

\* the ends of a repetition of one character class, the longest first
RunEnds(r, s, st) ==
    LET lengths == {n \in r.min .. Min(r.max, Len(s) + 1 - st.pos) :
                       \A j \in st.pos .. st.pos + n - 1 :
                           SubSeq(s, j, j) \in r.items[1].chars}
    IN  [i \in 1 .. Cardinality(lengths) |->
            [st EXCEPT !.pos = st.pos + r.min + Cardinality(lengths) - i]]

\* Ends(r, s, st): the positions at which a match of r that starts at st
\* can end, in the order in which the backtracking matcher tries them
RECURSIVE Ends(_, _, _), EndsAll(_, _, _), CatEnds(_, _, _, _), RepeatEnds(_, _, _, _), RepeatAll(_, _, _, _)
Ends(r, s, st) ==
    CASE r.op = "in" ->
            IF st.pos <= Len(s) /\ CharAt(s, st.pos) \in r.chars
            THEN <<[st EXCEPT !.pos = @ + 1]>> ELSE <<>>
      [] r.op = "literal" ->
            LET last == st.pos + Len(r.text) - 1
                piece == SubSeq(s, st.pos, last)
            IN  IF last <= Len(s)
                   /\ r.text = (IF r.ignore_case THEN lower(piece) ELSE piece)
                THEN <<[st EXCEPT !.pos = last + 1]>> ELSE <<>>
      [] r.op = "cat" -> CatEnds(r.items, s, <<st>>, 1)
      [] r.op = "alt" -> With([k \in DOMAIN r.items |-> Ends(r.items[k], s, st)], Merged)
      [] r.op = "repeat" ->
            IF r.items[1].op = "in" THEN RunEnds(r, s, st)
            ELSE RepeatEnds(r, s, st, 0)
      [] r.op = "mark" -> <<[st EXCEPT !.spans = [@ EXCEPT ![r.group] = <<st.pos>>]]>>
      [] r.op = "mark_end" -> <<[st EXCEPT !.spans = [@ EXCEPT ![r.group] = <<@[1], st.pos>>]]>>
      [] r.op = "boundary" ->
            LET before == st.pos > 1 /\ CharAt(s, st.pos - 1) \in Word
                after  == st.pos <= Len(s) /\ CharAt(s, st.pos) \in Word
            IN  IF before # after THEN <<st>> ELSE <<>>
      [] r.op = "at_beginning" -> IF st.pos = 1 THEN <<st>> ELSE <<>>

\* the ends of r from each position of sts in turn; a position reached a
\* second time is dropped, as the matcher finds from it what it found the
\* first time
EndsAll(r, s, sts) ==
    IF Len(sts) = 1 THEN Ends(r, s, sts[1])
    ELSE With([i \in DOMAIN sts |-> Ends(r, s, sts[i])], Merged)

CatEnds(items, s, sts, k) ==
    IF k > Len(items) \/ sts = <<>> THEN sts
    ELSE CatEnds(items, s, EndsAll(items[k], s, sts), k + 1)

RepeatEnds(r, s, st, n) ==
    LET here  == IF n >= r.min THEN <<st>> ELSE <<>>
        steps == IF n < r.max
                 THEN SelectSeq(Ends(r.items[1], s, st), LAMBDA e : e.pos > st.pos)
                 ELSE <<>>
        more  == RepeatAll(r, s, steps, n + 1)
    IN  more \o here

RepeatAll(r, s, sts, n) ==
    IF Len(sts) = 1 THEN RepeatEnds(r, s, sts[1], n)
    ELSE With([i \in DOMAIN sts |-> RepeatEnds(r, s, sts[i], n)], Merged)

\* a match object: where it starts and ends and the spans of its groups
NoMatch == [start |-> 0, end |-> 0, spans |-> <<>>]

\* pattern.match(s, pos)
MatchAt(r, s, pos) ==
    With(Ends(r, s, At(pos)), LAMBDA ends :
        IF ends = <<>> THEN NoMatch
        ELSE [start |-> pos, end |-> ends[1].pos, spans |-> ends[1].spans])

\* the first match of `found`, the matches at each position, from pos on
FirstFrom(found, pos) ==
    LET starts == {p \in DOMAIN found : p >= pos /\ found[p] # NoMatch}
    IN  IF starts = {} THEN NoMatch ELSE found[Least(starts)]

\* pattern.search(s): the match at the first position that has one
search(r, s) ==
    With([p \in 1 .. Len(s) + 1 |-> MatchAt(r, s, p)], LAMBDA found : FirstFrom(found, 1))

\* match.group(n); group 0 is the whole match
group(m, s, n) ==
    IF n = 0 THEN SubSeq(s, m.start, m.end - 1)
    ELSE IF m.spans[n] = NoSpan THEN ""
    ELSE SubSeq(s, m.spans[n][1], m.spans[n][2] - 1)

\* the matches pattern.finditer(s) yields
finditer(r, s) ==
    With([p \in 1 .. Len(s) + 1 |-> MatchAt(r, s, p)], LAMBDA found :
        LET RECURSIVE FindFrom(_)
            FindFrom(pos) ==
                LET m == FirstFrom(found, pos)
                IN  IF m = NoMatch THEN <<>>
                    ELSE <<m>> \o FindFrom(IF m.end > m.start THEN m.end ELSE m.end + 1)
        IN  FindFrom(1))

\* pattern.findall(s) for a pattern with one group
findall(r, s) ==
    With(finditer(r, s), LAMBDA ms : [i \in 1 .. Len(ms) |-> group(ms[i], s, 1)])

\* pattern.sub(repl, s): every match replaced by the string repl, or by
\* its group `keep` when the replacement is a reference such as r'\1'
Replaced(r, s, repl, keep) ==
    With([p \in 1 .. Len(s) + 1 |-> MatchAt(r, s, p)], LAMBDA found :
        LET RECURSIVE SubFrom(_)
            SubFrom(pos) ==
                LET m == FirstFrom(found, pos)
                IN  IF m = NoMatch THEN SubSeq(s, pos, Len(s))
                    ELSE SubSeq(s, pos, m.start - 1)
                            \o (IF keep = 0 THEN repl ELSE group(m, s, keep))
                            \o SubFrom(m.end)
        IN  SubFrom(1))

sub(r, repl, s) == Replaced(r, s, repl, 0)
sub_group(r, keep, s) == Replaced(r, s, "", keep)
(* ------------------- StructuredExtractor: the patterns ---------------- *)
D == In(Digit)
Blank == In(Space)
DateSep == In({"-", "/"})
DotSep == In({".", "/"})

month_abbreviations ==
    <<"Jan", "Feb", "Mar", "Apr", "May", "Jun",
      "Jul", "Aug", "Sep", "Oct", "Nov", "Dec">>
month_names ==
    <<"January", "February", "March", "April", "May", "June", "July",
      "August", "September", "October", "November", "December">>
ordinal_suffixes == <<"st", "nd", "rd", "th">>

\* self.date_patterns
date_patterns ==
    <<Cat(<<WordBoundary,
            Group(1, Cat(<<Repeat(D, 1, 2), DateSep, Repeat(D, 1, 2), DateSep,
                           Repeat(D, 4, 4)>>)),
            WordBoundary>>),
      Cat(<<WordBoundary,
            Group(1, Cat(<<Repeat(D, 4, 4), DateSep, Repeat(D, 1, 2), DateSep,
                           Repeat(D, 1, 2)>>)),
            WordBoundary>>),
      Cat(<<WordBoundary,
            Group(1, Cat(<<Repeat(D, 1, 2), Plus(Blank), AltI(month_abbreviations),
                           Plus(Blank), Repeat(D, 4, 4)>>)),
            WordBoundary>>),
      Cat(<<WordBoundary,
            Group(1, Cat(<<Repeat(D, 1, 2), DotSep, Repeat(D, 1, 2), DotSep,
                           Repeat(D, 2, 4)>>)),
            WordBoundary>>),
      Cat(<<WordBoundary,
            Group(1, Cat(<<Repeat(D, 1, 2), Opt(AltI(ordinal_suffixes)),
                           Plus(Blank), AltI(month_names), Plus(Blank),
                           Repeat(D, 4, 4)>>)),
            WordBoundary>>)>>

\* \d{1,3}(?:,\d{3})*
Thousands == Cat(<<Repeat(D, 1, 3), Star(Cat(<<Lit(","), Repeat(D, 3, 3)>>))>>)
\* \d{1,3}(?:,\d{3})*(?:\.\d{2})?
Amount == Cat(<<Thousands, Opt(Cat(<<Lit("."), Repeat(D, 2, 2)>>))>>)

\* money_patterns whose numbers take no thousands separators
money_patterns_without_separators ==
    <<Cat(<<Lit("$"), Star(Blank),
            Group(1, Cat(<<Plus(D), Opt(Cat(<<Lit("."), Repeat(D, 2, 2)>>))>>))>>),
      Cat(<<Group(1, Cat(<<Plus(D), Opt(Cat(<<Lit("."), Repeat(D, 2, 2)>>))>>)),
            Star(Blank), Lit("$")>>),
      Cat(<<Opt(In({"-", "+"})), Star(Blank), Opt(Lit("$")), Star(Blank),
            Group(1, Cat(<<Plus(D), Opt(Cat(<<Lit("."), Repeat(D, 2, 2)>>))>>))>>),
      Cat(<<WordBoundary,
            Group(1, Cat(<<Plus(D), Lit("."), Repeat(D, 2, 2)>>)),
            WordBoundary>>),
      Cat(<<AltI(<<"AUD", "USD", "EUR", "GBP", "CAD">>), Star(Blank),
            Group(1, Cat(<<Plus(D), Opt(Cat(<<Lit("."), Repeat(D, 2, 2)>>))>>))>>)>>

\* self.money_patterns
money_patterns ==
    <<Cat(<<Lit("$"), Star(Blank), Group(1, Amount)>>),
      Cat(<<Group(1, Amount), Star(Blank), Lit("$")>>),
      Cat(<<Opt(In({"-", "+"})), Star(Blank), Opt(Lit("$")), Star(Blank),
            Group(1, Amount)>>),
      Cat(<<WordBoundary,
            Group(1, Cat(<<Thousands, Lit("."), Repeat(D, 2, 2)>>)),
            WordBoundary>>),
      Cat(<<AltI(<<"AUD", "USD", "EUR", "GBP", "CAD">>), Star(Blank),
            Group(1, Amount)>>)>>
(* ----------------------- datetime.strptime / strftime ------------------ *)
NonZero == In(Chars("123456789"))

\* _strptime.TimeRE: the pattern of a directive; day, month and year are
\* the groups 1, 2 and 3
month_names_by_length ==
    <<"september", "february", "november", "december", "january", "october",
      "august", "march", "april", "june", "july", "may">>

Directive(c) ==
    CASE c = "d" -> Group(1, Alt(<<Cat(<<Lit("3"), In({"0", "1"})>>),
                                   Cat(<<In({"1", "2"}), D>>),
                                   Cat(<<Lit("0"), NonZero>>),
                                   NonZero,
                                   Cat(<<Lit(" "), NonZero>>)>>))
      [] c = "m" -> Group(2, Alt(<<Cat(<<Lit("1"), In({"0", "1", "2"})>>),
                                   Cat(<<Lit("0"), NonZero>>),
                                   NonZero>>))
      [] c = "Y" -> Group(3, Repeat(D, 4, 4))
      [] c = "y" -> Group(3, Repeat(D, 2, 2))
      [] c = "b" -> Group(2, AltI(month_abbreviations))
      [] c = "B" -> Group(2, AltI(month_names_by_length))

\* TimeRE.pattern(format): directives, \s+ for white space, the other
\* characters as they are
RECURSIVE FormatItems(_, _)
FormatItems(fmt, i) ==
    IF i > Len(fmt) THEN <<>>
    ELSE IF CharAt(fmt, i) = "%"
         THEN <<Directive(CharAt(fmt, i + 1))>> \o FormatItems(fmt, i + 2)
         ELSE IF CharAt(fmt, i) \in Space
              THEN <<Plus(Blank)>> \o FormatItems(fmt, i + 1)
              ELSE <<Lit(CharAt(fmt, i))>> \o FormatItems(fmt, i + 1)

\* the formats _normalize_date tries, in its order
formats ==
    <<"%d/%m/%Y", "%d-%m-%Y", "%m/%d/%Y", "%m-%d-%Y",
      "%Y/%m/%d", "%Y-%m-%d", "%d.%m.%Y", "%d.%m.%y",
      "%d %b %Y", "%d %B %Y", "%m/%d/%y", "%d/%m/%y",
      "%d %b, %Y", "%d %B, %Y", "%B %d, %Y", "%b %d, %Y",
      "%d%b%Y", "%d%B%Y">>

\* _strptime._regex_cache: the pattern of a format is compiled once
regex_cache ==
    With([k \in DOMAIN formats |-> Cat(FormatItems(formats[k], 1))], LAMBDA compiled : compiled)

format_regex(fmt) ==
    IF \E k \in DOMAIN formats : formats[k] = fmt
    THEN regex_cache[CHOOSE k \in DOMAIN formats : formats[k] = fmt]
    ELSE Cat(FormatItems(fmt, 1))

IsLeap(year) == year % 4 = 0 /\ (year % 100 # 0 \/ year % 400 = 0)

DaysInMonth(year, month) ==
    IF month = 2 THEN (IF IsLeap(year) THEN 29 ELSE 28)
    ELSE IF month \in {4, 6, 9, 11} THEN 30 ELSE 31

\* the number of the month whose name or abbreviation is `name`
MonthNumber(name) ==
    CHOOSE k \in 1 .. 12 :
        lower(name) \in {lower(month_names[k]), lower(month_abbreviations[k])}

NoDate == [ok |-> FALSE, year |-> 0, month |-> 0, day |-> 0]

\* datetime.strptime(date_string, format); ok = FALSE where it raises
\* ValueError: no match, unconverted data, or no such day
strptime(date_string, fmt) ==
    With(MatchAt(format_regex(fmt), date_string, 1), LAMBDA found :
        IF found = NoMatch \/ found.end # Len(date_string) + 1 THEN NoDate
        ELSE LET y     == int(group(found, date_string, 3))
                 year  == IF Contains(fmt, "%y")
                          THEN (IF y <= 68 THEN 2000 + y ELSE 1900 + y)
                          ELSE y
                 month == IF Contains(fmt, "%m")
                          THEN int(group(found, date_string, 2))
                          ELSE MonthNumber(group(found, date_string, 2))
                 day   == int(StripOf(group(found, date_string, 1), {" "}))
             IN  IF year >= 1 /\ day <= DaysInMonth(year, month)
                 THEN [ok |-> TRUE, year |-> year, month |-> month, day |-> day]
                 ELSE NoDate)

\* date_obj.strftime('%Y-%m-%d'): the C library does not pad %Y
strftime(date_obj) ==
    Decimal(date_obj.year, 1) \o "-" \o Decimal(date_obj.month, 2)
        \o "-" \o Decimal(date_obj.day, 2)

(* ---------------------------- _normalize_date ------------------------- *)
\* (\d+)(?:st|nd|rd|th), re.IGNORECASE
ordinal_pattern == Cat(<<Group(1, Plus(D)), AltI(ordinal_suffixes)>>)

\* _normalize_date that gives up after the day-first formats
_normalize_date_day_first_only(date_str) ==
    With(sub_group(ordinal_pattern, 1, strip(date_str)), LAMBDA stripped :
        With([k \in 1 .. Len(formats) |-> strptime(stripped, formats[k])], LAMBDA parsed :
            With({k \in {1, 2, 7, 8, 9, 10} : parsed[k].ok}, LAMBDA parsing :
                IF parsing = {} THEN strip(stripped)
                ELSE strftime(parsed[Least(parsing)]))))

\* the first format that reads the string gives the date; a string no
\* format reads comes back stripped
_normalize_date(date_str) ==
    With(sub_group(ordinal_pattern, 1, strip(date_str)), LAMBDA stripped :
        With([k \in 1 .. Len(formats) |-> strptime(stripped, formats[k])], LAMBDA parsed :
            With({k \in 1 .. Len(formats) : parsed[k].ok}, LAMBDA parsing :
                IF parsing = {} THEN strip(stripped)
                ELSE strftime(parsed[Least(parsing)]))))

(* ------------------ detect_document_type, _detect_tables --------------- *)
rideshare_keywords ==
    <<"uber", "lyft", "trip", "ride", "driver", "fare", "pickup", "dropoff",
      "earnings", "passenger", "route">>
bank_keywords ==
    <<"bank", "statement", "account", "balance", "debit", "credit", "deposit",
      "withdrawal", "transaction", "atm">>
table_headers == <<"date", "amount", "description", "debit", "credit", "balance">>

\* any(word in s for word in words)
AnyIn(words, s) == \E k \in 1 .. Len(words) : Contains(s, words[k])

\* sum(xs), computed on the two halves of xs
RECURSIVE sum(_)
sum(xs) ==
    IF Len(xs) <= 1 THEN (IF xs = <<>> THEN 0 ELSE xs[1])
    ELSE sum(SubSeq(xs, 1, Len(xs) \div 2))
            + sum(SubSeq(xs, Len(xs) \div 2 + 1, Len(xs)))

\* \s{3,}|\t{2,}
column_gap == Alt(<<Repeat(Blank, 3, Unbounded), Repeat(In({"\t"}), 2, Unbounded)>>)
\* \d+[./\-]\d+[./\-]\d+
date_shape ==
    Cat(<<Plus(D), In({".", "/", "-"}), Plus(D), In({".", "/", "-"}), Plus(D)>>)
\* \$?\d+\.\d{2}
money_shape == Cat(<<Opt(Lit("$")), Plus(D), Lit("."), Repeat(D, 2, 2)>>)

\* what one line adds to table_indicators
line_indicators(raw_line) ==
    LET line == strip(raw_line)
    IN  IF line = "" THEN 0
        ELSE (IF search(column_gap, line) # NoMatch THEN 1 ELSE 0)
           + (IF search(date_shape, line) # NoMatch
                 /\ search(money_shape, line) # NoMatch THEN 1 ELSE 0)
           + (IF AnyIn(table_headers, lower(line)) THEN 1 ELSE 0)

\* the table detector content with two indicators
_detect_tables_from_two_indicators(text) ==
    LET lines == split_lines(text)
    IN  sum([i \in 1 .. Len(lines) |-> line_indicators(lines[i])]) >= 2

_detect_tables(text) ==
    LET lines == split_lines(text)
    IN  sum([i \in 1 .. Len(lines) |-> line_indicators(lines[i])]) >= 3

\* the number of keywords found, and the number of their occurrences
keyword_score(keywords, text_lower) ==
    Cardinality({k \in 1 .. Len(keywords) : Contains(text_lower, keywords[k])})
keyword_weighted(keywords, text_lower) ==
    sum([k \in 1 .. Len(keywords) |-> count(text_lower, keywords[k])])

\* the classifier that asks for three occurrences of bank keywords
detect_document_type_three_occurrences(text) ==
    LET text_lower == lower(text)
        has_tables == _detect_tables(text)
        rideshare_score    == keyword_score(rideshare_keywords, text_lower)
        rideshare_weighted == keyword_weighted(rideshare_keywords, text_lower)
        bank_score    == keyword_score(bank_keywords, text_lower)
                            + (IF has_tables THEN 2 ELSE 0)
        bank_weighted == keyword_weighted(bank_keywords, text_lower)
                            + (IF has_tables THEN 5 ELSE 0)
    IN  IF rideshare_weighted > bank_weighted /\ rideshare_score >= 2
        THEN "rideshare"
        ELSE IF bank_weighted >= 3 \/ bank_score >= 3 THEN "bank_statement"
             ELSE "general"

\* the classifier that asks for three distinct rideshare keywords
detect_document_type_three_keywords(text) ==
    LET text_lower == lower(text)
        has_tables == _detect_tables(text)
        rideshare_score    == keyword_score(rideshare_keywords, text_lower)
        rideshare_weighted == keyword_weighted(rideshare_keywords, text_lower)
        bank_score    == keyword_score(bank_keywords, text_lower)
                            + (IF has_tables THEN 2 ELSE 0)
        bank_weighted == keyword_weighted(bank_keywords, text_lower)
                            + (IF has_tables THEN 5 ELSE 0)
    IN  IF rideshare_weighted > bank_weighted /\ rideshare_score >= 3
        THEN "rideshare"
        ELSE IF bank_weighted >= 2 \/ bank_score >= 3 THEN "bank_statement"
             ELSE "general"

\* the classifier without the boost a detected table gives the bank scores
detect_document_type_without_boost(text) ==
    LET text_lower == lower(text)
        rideshare_score    == keyword_score(rideshare_keywords, text_lower)
        rideshare_weighted == keyword_weighted(rideshare_keywords, text_lower)
        bank_score    == keyword_score(bank_keywords, text_lower)
        bank_weighted == keyword_weighted(bank_keywords, text_lower)
    IN  IF rideshare_weighted > bank_weighted /\ rideshare_score >= 2
        THEN "rideshare"
        ELSE IF bank_weighted >= 2 \/ bank_score >= 3 THEN "bank_statement"
             ELSE "general"

detect_document_type(text) ==
    LET text_lower == lower(text)
        has_tables == _detect_tables(text)
        rideshare_score    == keyword_score(rideshare_keywords, text_lower)
        rideshare_weighted == keyword_weighted(rideshare_keywords, text_lower)
        bank_score    == keyword_score(bank_keywords, text_lower)
                            + (IF has_tables THEN 2 ELSE 0)
        bank_weighted == keyword_weighted(bank_keywords, text_lower)
                            + (IF has_tables THEN 5 ELSE 0)
    IN  IF rideshare_weighted > bank_weighted /\ rideshare_score >= 2
        THEN "rideshare"
        ELSE IF bank_weighted >= 2 \/ bank_score >= 3 THEN "bank_statement"
             ELSE "general"

(* ------------------------ amounts and bank lines ----------------------- *)
\* float(amount_str.replace(',', '').replace('$', '')), in hundredths
to_amount(amount_str) == float(Without(Without(amount_str, ","), "$"))

\* the amounts the money patterns from the k-th on find in text, pattern
\* after pattern
amounts_from(text, k) ==
    With([j \in 1 .. Len(money_patterns) + 1 - k |->
              findall(money_patterns[j + k - 1], text)], LAMBDA found :
        With(chain(found), LAMBDA matches :
            [i \in DOMAIN matches |-> to_amount(matches[i])]))

\* the first date a date pattern finds in line, normalised; None if none
first_date(line) ==
    With([k \in 1 .. Len(date_patterns) |-> search(date_patterns[k], line)], LAMBDA found :
        With({k \in 1 .. Len(date_patterns) : found[k] # NoMatch}, LAMBDA matching :
            IF matching = {} THEN None
            ELSE Some(_normalize_date(group(found[Least(matching)], line, 1)))))

\* pattern.sub('', s) for each of the patterns from the k-th on
RECURSIVE remove_all(_, _, _)
remove_all(patterns, s, k) ==
    IF k > Len(patterns) THEN s
    ELSE With(sub(patterns[k], "", s), LAMBDA removed :
             remove_all(patterns, removed, k + 1))

\* ^(debit|credit|withdrawal|deposit)\s*, re.IGNORECASE
bank_prefix ==
    Cat(<<AtStart, Group(1, AltI(<<"debit", "credit", "withdrawal", "deposit">>)),
          Star(Blank)>>)

\* `not x` for an Optional[float]
Falsy(x) == x = None \/ x = Some(0)

\* the BankTransaction of a line (date, description, debit, credit; the
\* other fields stay None), or None
_parse_bank_line(line) ==
  With3(first_date(line), amounts_from(line, 1), remove_all(date_patterns, line, 1),
        LAMBDA date_match, amounts, undated :
  With(strip(sub(Plus(Blank), " ", remove_all(money_patterns, undated, 1))), LAMBDA cleaned :
    LET line_lower == lower(line)
        is_debit  == AnyIn(<<"debit", "withdrawal", "fee", "charge", "payment",
                             "purchase">>, line_lower)
        is_credit == AnyIn(<<"credit", "deposit", "interest", "refund",
                             "transfer in">>, line_lower)
        has_negative == Contains(line, "-") \/ Contains(line_lower, "minus")
        debit0  == IF is_debit \/ has_negative THEN Some(amounts[1]) ELSE None
        credit0 == IF is_credit /\ ~has_negative THEN Some(amounts[1]) ELSE None
        debit_context == AnyIn(<<"atm", "pos", "transfer out", "bill">>, line_lower)
        debit  == IF Falsy(debit0) /\ Falsy(credit0) /\ debit_context
                  THEN Some(amounts[1]) ELSE debit0
        credit == IF Falsy(debit0) /\ Falsy(credit0) /\ ~debit_context
                  THEN Some(amounts[1]) ELSE credit0
    IN  IF date_match = None \/ date_match = Some("") \/ amounts = <<>> THEN None
        ELSE Some([date        |-> date_match[1],
                   description |-> strip(sub(bank_prefix, "", cleaned)),
                   debit       |-> debit,
                   credit      |-> credit])))

\* _extract_bank_data(text).transactions: the transactions of the
\* stripped non-empty lines, in line order
_extract_bank_data(text) ==
    LET lines == split_lines(text)
    IN  With([i \in 1 .. Len(lines) |->
                  IF strip(lines[i]) = "" THEN None
                  ELSE _parse_bank_line(strip(lines[i]))], chain)

(* ---------------------------- rideshare lines -------------------------- *)
\* the RideshareTrip of a line and its context (date, fare, tips,
\* total_earnings; the locations are left out), or None
_parse_rideshare_line(line, context_lines) ==
  With(line \o join(" ", context_lines), LAMBDA context_text :
  With2(first_date(line), amounts_from(context_text, 1), LAMBDA date_match, amounts :
        IF date_match = None \/ date_match = Some("") \/ amounts = <<>> THEN None
        ELSE Some([date           |-> date_match[1],
                   fare           |-> amounts[1],
                   tips           |-> IF Len(amounts) > 1 THEN Some(amounts[2])
                                      ELSE None,
                   total_earnings |-> sum(amounts)])))

\* _extract_rideshare_data(text): the trips and the totals over them
_extract_rideshare_data(text) ==
    LET lines == split_lines(text)
    IN  With([i \in 1 .. Len(lines) |->
                  IF strip(lines[i]) = "" THEN None
                  ELSE _parse_rideshare_line(strip(lines[i]),
                          SubSeq(lines, i, Min(i + 2, Len(lines))))], LAMBDA parsed :
        With(chain(parsed), LAMBDA trips :
            [trips          |-> trips,
             total_trips    |-> Len(trips),
             total_earnings |-> sum([i \in 1 .. Len(trips) |-> trips[i].total_earnings])]))

(* ------------------------ _extract_amount_improved --------------------- *)
negative_indicators == <<"debit", "withdrawal", "fee", "charge", "-">>

\* the amount in hundredths: the first match of the first money pattern
\* that matches, negative when the text holds a negative indicator
_extract_amount_improved(text) ==
    With({k \in 1 .. Len(money_patterns) :
              search(money_patterns[k], text) # NoMatch}, LAMBDA matching :
        IF matching = {} THEN 0
        ELSE With(findall(money_patterns[Least(matching)], text), LAMBDA matches :
                 IF AnyIn(negative_indicators, lower(text))
                 THEN 0 - to_amount(matches[1]) ELSE to_amount(matches[1])))

(* --------------------- _extract_general_transactions ------------------- *)
\* s.find(sub): the index of the first occurrence, from 0, or -1
find(s, word) ==
    IF Occurrences(s, word, 1) = {} THEN 0 - 1 ELSE Least(Occurrences(s, word, 1)) - 1

\* s.replace(old, '', 1)
replace_first(s, old) ==
    IF Occurrences(s, old, 1) = {} THEN s
    ELSE SubSeq(s, 1, Least(Occurrences(s, old, 1)) - 1)
            \o SubSeq(s, Least(Occurrences(s, old, 1)) + Len(old), Len(s))

\* re.split(pattern, s) for a pattern without groups
split(r, s) ==
    With(finditer(r, s), LAMBDA gaps :
        [i \in 1 .. Len(gaps) + 1 |->
            SubSeq(s, IF i = 1 THEN 1 ELSE gaps[i - 1].end,
                      IF i > Len(gaps) THEN Len(s) ELSE gaps[i].start - 1)])

\* \s{2,}|\t+
column_separator == Alt(<<Repeat(Blank, 2, Unbounded), Plus(In({"\t"}))>>)

\* ^(transaction|payment|deposit|withdrawal|transfer):\s*, re.IGNORECASE
description_prefix ==
    Cat(<<AtStart,
          Group(1, AltI(<<"transaction", "payment", "deposit", "withdrawal", "transfer">>)),
          Lit(":"), Star(Blank)>>)

\* any(pattern.search(s) for pattern in patterns)
AnySearch(patterns, s) == \E k \in DOMAIN patterns : search(patterns[k], s) # NoMatch

_clean_description(line) ==
    With(remove_all(date_patterns, line, 1), LAMBDA undated :
    With(remove_all(money_patterns, undated, 1), LAMBDA bare :
    With(sub(description_prefix, "", bare), LAMBDA unprefixed :
        StripOf(strip(sub(Plus(Blank), " ", unprefixed)), {".", ",", ";", ":", "-"}))))

\* the RawTransaction of a line, or None
_parse_transaction_line(line) ==
    With(first_date(line), LAMBDA date_match :
        IF date_match = None \/ date_match = Some("") THEN None
        ELSE With2(_extract_amount_improved(line), _clean_description(line),
                   LAMBDA amount, description :
                IF amount = 0 \/ Len(description) <= 2 THEN None
                ELSE Some([date |-> date_match[1], description |-> description,
                           amount |-> amount])))

\* the first of columns that one of patterns matches, or otherwise
FirstMatching(patterns, columns, otherwise) ==
    With({i \in DOMAIN columns : AnySearch(patterns, columns[i])}, LAMBDA matching :
        IF matching = {} THEN otherwise ELSE Some(columns[Least(matching)]))

\* `if x` for an Optional[str]
TruthyStr(x) == x # None /\ x # Some("")

\* the row read by its columns: the RawTransaction, or None where the
\* code goes on to the fallback
ColumnsRead(line, date_col, desc_col) ==
    With(split(column_separator, line), LAMBDA columns :
        IF Len(columns) < 3 THEN None
        ELSE With2(FirstMatching(date_patterns, columns,
                                 IF date_col[1] < desc_col[1] THEN Some(columns[1]) ELSE None),
                   FirstMatching(money_patterns, columns, None),
                   LAMBDA date_str, amount_str :
              With(strip(sub(Plus(Blank), " ",
                        IF TruthyStr(amount_str)
                        THEN replace_first(IF TruthyStr(date_str)
                                           THEN replace_first(line, date_str[1])
                                           ELSE line, amount_str[1])
                        ELSE IF TruthyStr(date_str) THEN replace_first(line, date_str[1])
                             ELSE line)), LAMBDA desc_str :
                IF ~TruthyStr(date_str) \/ ~TruthyStr(amount_str) \/ desc_str = "" THEN None
                ELSE With2(_normalize_date(date_str[1]),
                           _extract_amount_improved(amount_str[1]),
                           LAMBDA date_normalized, amount :
                        IF amount # 0 /\ Len(desc_str) > 2
                        THEN Some([date |-> date_normalized, description |-> desc_str,
                                   amount |-> amount])
                        ELSE None))))

\* the RawTransaction of a row of a table, or None
_parse_table_row(line, date_col, desc_col, amount_col) ==
    With(IF date_col # None /\ desc_col # None /\ amount_col # None
         THEN ColumnsRead(line, date_col, desc_col) ELSE None, LAMBDA row :
        IF row # None THEN row ELSE _parse_transaction_line(line))

\* the header row among the first 10 lines: its index from 1, or 0
HeaderRow(lines) ==
    LET headers == {i \in 1 .. Min(10, Len(lines)) :
                       AnyIn(<<"date", "description", "amount", "transaction">>,
                             lower(lines[i]))}
    IN  IF headers = {} THEN 0 ELSE Least(headers)

\* the column a header word starts at, where the header row has the word
ColumnOf(line_lower, word) ==
    IF Contains(line_lower, word) THEN Some(find(line_lower, word)) ELSE None

_extract_from_table_structure(lines) ==
    With(HeaderRow(lines), LAMBDA header_row :
    With(IF header_row = 0 THEN "" ELSE lower(lines[header_row]), LAMBDA line_lower :
    With3(IF header_row = 0 THEN None ELSE ColumnOf(line_lower, "date"),
          IF header_row = 0 \/ ~Contains(line_lower, "desc") THEN None
          ELSE Some(Max(find(line_lower, "description"), find(line_lower, "desc"))),
          IF header_row = 0 THEN None ELSE ColumnOf(line_lower, "amount"),
          LAMBDA date_col, desc_col, amount_col :
        With([i \in 1 .. Len(lines) - header_row |->
                 IF Len(strip(lines[header_row + i])) < 10 THEN None
                 ELSE _parse_table_row(strip(lines[header_row + i]),
                                       date_col, desc_col, amount_col)], chain))))

\* the RawTransactions of text, in line order
_extract_general_transactions(text) ==
    With(split_lines(text), LAMBDA lines :
        IF _detect_tables(text) THEN _extract_from_table_structure(lines)
        ELSE With([i \in 1 .. Len(lines) |->
                      IF /\ Len(strip(lines[i])) >= 10
                         /\ AnySearch(SubSeq(date_patterns, 1, 2), strip(lines[i]))
                         /\ AnySearch(SubSeq(money_patterns, 1, 3), strip(lines[i]))
                      THEN _parse_transaction_line(strip(lines[i]))
                      ELSE None], chain))

(* ---------- extract_structured_data, _convert_to_raw_transactions ------ *)
\* the structured data of a text: its class, the extractor that made it
\* and, for the general extractor, whether it went on to
\* _extract_from_table_structure
extract_structured_data(text) ==
    With(detect_document_type(text), LAMBDA document_type :
        IF document_type = "rideshare"
        THEN [type |-> "RideshareTaxSummary", extractor |-> "_extract_rideshare_data",
              table_structure |-> FALSE,
              transactions |-> _extract_rideshare_data(text).trips]
        ELSE IF document_type = "bank_statement"
        THEN [type |-> "TransactionList", extractor |-> "_extract_bank_data",
              table_structure |-> FALSE,
              transactions |-> _extract_bank_data(text)]
        ELSE [type |-> "list", extractor |-> "_extract_general_transactions",
              table_structure |-> _detect_tables(text),
              transactions |-> _extract_general_transactions(text)])

\* txn.credit if txn.credit else -(txn.debit or 0)
signed_amount(txn) ==
    IF ~Falsy(txn.credit) THEN txn.credit[1]
    ELSE IF Falsy(txn.debit) THEN 0 ELSE 0 - txn.debit[1]

\* the RawTransactions of a RideshareTaxSummary or a TransactionList (the
\* description of a trip, made of its locations, is left out)
_convert_to_raw_transactions(structured_data) ==
    IF structured_data.type = "RideshareTaxSummary"
    THEN [i \in DOMAIN structured_data.transactions |->
             [date   |-> structured_data.transactions[i].date,
              amount |-> structured_data.transactions[i].total_earnings]]
    ELSE IF structured_data.type = "TransactionList"
    THEN [i \in DOMAIN structured_data.transactions |->
             [date        |-> structured_data.transactions[i].date,
              description |-> structured_data.transactions[i].description,
              amount      |-> signed_amount(structured_data.transactions[i])]]
    ELSE <<>>

(* ------------------------------- state -------------------------------- *)
VARIABLES
    cache_manager,  \* the CacheManager under test / the process-wide instance
    nops,           \* calls made so far on the cache
    recency,        \* the stored keys, least recently accessed first
    inserted,       \* the stored keys, earliest inserted first
    last,           \* what the latest call on the cache did
    pc,             \* per request thread: the statement of get/put it is at
    frame,          \* per request thread: the locals of its call
    raised,         \* per request thread: the exception its latest call raised
    request,        \* extract_from_base64: the document sent, whether it decodes
    stage,          \* extract_from_base64: the statement it is at
    locals,         \* extract_from_base64: its local variables
    stack,          \* the calls of extract_text_from_pdf / _repair_and_retry
    ret,            \* what the call that ended last returned or raised
    run,            \* what the text extraction did so far
    outcome,        \* how extract_from_base64 ended
    http,           \* /extract-base64: the response and what raised it
    subject,        \* the text a function of StructuredExtractor is given
    applied         \* the function applied to it and what it returned

cacheVars == <<cache_manager, nops, recency, inserted, last>>
threadVars == <<pc, frame, raised>>
pipeVars == <<request, stage, locals, stack, ret, run, outcome>>
textVars == <<subject, applied>>

\* the documents the structure analyzer is called on in the cache runs
AnalysisDocs ==
    {Document(2, TRUE, TRUE, [AllText EXCEPT ![0] = k], FALSE, 1, 1, 1) :
        k \in {"text", "empty"}}
    \cup {Document(2, FALSE, FALSE, AllText, FALSE, 1, 1, 1)}

\* the payloads callers store
Values == {computed_analysis(d) : d \in AnalysisDocs} \cup {error_analysis}

NoCall ==
    [op |-> "none", key |-> None, doc |-> None, result |-> None, exc |-> NoExc,
     memory_exceeded |-> FALSE, hit |-> FALSE, opened |-> FALSE,
     removed |-> {}, full |-> FALSE, stored |-> FALSE,
     lru |-> None, oldest |-> None,
     priorGet |-> None, repeat |-> FALSE, priorResult |-> None,
     hits |-> 0, misses |-> 0, evictions |-> 0]

StoredKeys(cm) == DOMAIN cm.cache

\* s without the members outside S, then with k moved to the end
Touch(s, S, k) ==
    LET kept == SelectSeq(s, LAMBDA x : x \in S /\ x # k)
    IN  IF k \in S THEN Append(kept, k) ELSE kept

Keep(s, S) == SelectSeq(s, LAMBDA x : x \in S)

\* the record of a call: op on key took the manager from `before` to `after`
Call(op, key, before, after, out, mem, hit, opened) ==
    [op |-> op, key |-> Some(key), doc |-> None,
     result |-> out.result, exc |-> out.exc,
     memory_exceeded |-> mem, hit |-> hit, opened |-> opened,
     removed |-> StoredKeys(before) \ StoredKeys(after),
     full |-> Cardinality(StoredKeys(before)) >= before.max_size,
     stored |-> key \in StoredKeys(before),
     lru |-> IF recency = <<>> THEN None ELSE Some(Head(recency)),
     oldest |-> IF inserted = <<>> THEN None ELSE Some(Head(inserted)),
     priorGet |-> IF last.op = "get" /\ last.hit THEN last.key ELSE None,
     repeat |-> FALSE, priorResult |-> None,
     hits |-> after.cache_stats.hits - before.cache_stats.hits,
     misses |-> after.cache_stats.misses - before.cache_stats.misses,
     evictions |-> after.cache_stats.evictions - before.cache_stats.evictions]

CacheInit ==
    /\ cache_manager \in {CacheManager(n) : n \in 1 .. MaxSize}
    /\ nops = 0
    /\ recency = <<>>
    /\ inserted = <<>>
    /\ last = NoCall

\* cache_manager.get(key)
Get(key) ==
    LET out == get(cache_manager, key)
        hit == key \in StoredKeys(cache_manager)
    IN  /\ nops < MaxOps
        /\ nops' = nops + 1
        /\ cache_manager' = out.cm
        /\ recency' = IF hit THEN Touch(recency, StoredKeys(out.cm), key)
                      ELSE recency
        /\ inserted' = inserted
        /\ last' = Call("get", key, cache_manager, out.cm, out, FALSE, hit, FALSE)

\* cache_manager.put(key, value)
Put(key, value, memory_exceeded) ==
    LET after == put(cache_manager, key, value, memory_exceeded)
    IN  /\ nops < MaxOps
        /\ nops' = nops + 1
        /\ cache_manager' = after
        /\ recency' = Touch(recency, StoredKeys(after), key)
        /\ inserted' = IF key \in Range(Keep(inserted, StoredKeys(after)))
                       THEN Keep(inserted, StoredKeys(after))
                       ELSE Append(Keep(inserted, StoredKeys(after)), key)
        /\ last' = Call("put", key, cache_manager, after,
                        Returned(after, None), memory_exceeded, FALSE, FALSE)

\* cache_manager.clear()
Clear ==
    LET after == clear(cache_manager)
    IN  /\ nops < MaxOps
        /\ nops' = nops + 1
        /\ cache_manager' = after
        /\ recency' = <<>>
        /\ inserted' = <<>>
        /\ last' = [Call("clear", 0, cache_manager, after,
                        Returned(after, None), FALSE, FALSE, FALSE)
                    EXCEPT !.key = None, !.stored = FALSE]

\* SimplePDFExtractor.analyze_pdf_structure(pdf_content)
Analyze(doc, memory_exceeded) ==
    LET out == analyze_pdf_structure(cache_manager, doc, memory_exceeded)
        key == content_hash(doc)
        S   == StoredKeys(out.cm)
    IN  /\ nops < MaxOps
        /\ nops' = nops + 1
        /\ cache_manager' = out.cm
        /\ recency' = Touch(recency, S, key)
        /\ inserted' = IF key \in Range(Keep(inserted, S)) \/ key \notin S
                       THEN Keep(inserted, S)
                       ELSE Append(Keep(inserted, S), key)
        /\ last' = [Call("analyze", key, cache_manager, out.cm, out,
                         memory_exceeded /\ out.opened, out.hit, out.opened)
                     EXCEPT !.doc = Some(doc),
                            !.repeat = last.doc = Some(doc),
                            !.priorResult = IF last.doc = Some(doc)
                                            THEN last.result ELSE None]

(* ------------- get and put called from concurrent requests ------------ *)
\* CacheManager holds no lock: a request thread may be preempted between
\* any two statements of get, put, _evict_lru and clear.
Threads == 1 .. NumThreads

NoFrame == [key |-> 0, value |-> None, lru_key |-> 0, counter |-> "none",
            loaded |-> 0, next |-> "idle"]

ThreadsIdle ==
    /\ pc = [t \in Threads |-> "idle"]
    /\ frame = [t \in Threads |-> NoFrame]
    /\ raised = [t \in Threads |-> NoExc]

Goto(t, label) == pc' = [pc EXCEPT ![t] = label]

\* the call of thread t ends by returning
Return(t) ==
    /\ pc' = [pc EXCEPT ![t] = "idle"]
    /\ frame' = [frame EXCEPT ![t] = NoFrame]
    /\ raised' = raised

\* the call of thread t ends by raising exc
Raise(t, exc) ==
    /\ pc' = [pc EXCEPT ![t] = "idle"]
    /\ frame' = [frame EXCEPT ![t] = NoFrame]
    /\ raised' = [raised EXCEPT ![t] = exc]

\* `self.cache_stats[name] += 1` is a load followed by a store
Increment(t, name, next) ==
    /\ Goto(t, "load_counter")
    /\ frame' = [frame EXCEPT ![t].counter = name, ![t].next = next]

ghostVars == <<recency, inserted, last>>

CallGet(t, key) ==
    /\ pc[t] = "idle" /\ nops < MaxOps
    /\ nops' = nops + 1
    /\ Goto(t, "get_test")
    /\ frame' = [frame EXCEPT ![t] = [NoFrame EXCEPT !.key = key]]
    /\ raised' = [raised EXCEPT ![t] = NoExc]
    /\ UNCHANGED <<cache_manager, ghostVars>>

CallPut(t, key, value) ==
    /\ pc[t] = "idle" /\ nops < MaxOps
    /\ nops' = nops + 1
    /\ Goto(t, "put_test")
    /\ frame' = [frame EXCEPT ![t] = [NoFrame EXCEPT !.key = key,
                                                    !.value = Some(value)]]
    /\ raised' = [raised EXCEPT ![t] = NoExc]
    /\ UNCHANGED <<cache_manager, ghostVars>>

\* if key in self.cache:
GetTest(t) ==
    /\ pc[t] = "get_test"
    /\ IF frame[t].key \in DOMAIN cache_manager.cache
       THEN Goto(t, "get_remove") /\ frame' = frame
       ELSE Increment(t, "misses", "get_return_none")
    /\ UNCHANGED <<cache_manager, nops, ghostVars, raised>>

\* self.access_order.remove(key)
GetRemove(t) ==
    /\ pc[t] = "get_remove"
    /\ IF frame[t].key \in Range(cache_manager.access_order)
       THEN /\ cache_manager' = [cache_manager EXCEPT
                    !.access_order = ListRemove(@, frame[t].key)]
            /\ Goto(t, "get_append")
            /\ UNCHANGED <<frame, raised>>
       ELSE /\ Raise(t, "ValueError")
            /\ cache_manager' = cache_manager
    /\ UNCHANGED <<nops, ghostVars>>

\* self.access_order.append(key)
GetAppend(t) ==
    /\ pc[t] = "get_append"
    /\ cache_manager' = [cache_manager EXCEPT
            !.access_order = Append(@, frame[t].key)]
    /\ Increment(t, "hits", "get_return")
    /\ UNCHANGED <<nops, ghostVars, raised>>

\* return self.cache[key]
GetReturn(t) ==
    /\ pc[t] = "get_return"
    /\ IF frame[t].key \in DOMAIN cache_manager.cache
       THEN Return(t) ELSE Raise(t, "KeyError")
    /\ UNCHANGED <<cache_manager, nops, ghostVars>>

\* return None
GetReturnNone(t) ==
    /\ pc[t] = "get_return_none"
    /\ Return(t)
    /\ UNCHANGED <<cache_manager, nops, ghostVars>>

LoadCounter(t) ==
    /\ pc[t] = "load_counter"
    /\ Goto(t, "store_counter")
    /\ frame' = [frame EXCEPT ![t].loaded =
                    cache_manager.cache_stats[frame[t].counter]]
    /\ UNCHANGED <<cache_manager, nops, ghostVars, raised>>

StoreCounter(t) ==
    /\ pc[t] = "store_counter"
    /\ cache_manager' = [cache_manager EXCEPT
            !.cache_stats[frame[t].counter] = frame[t].loaded + 1]
    /\ Goto(t, frame[t].next)
    /\ frame' = [frame EXCEPT ![t].counter = "none", ![t].loaded = 0,
                              ![t].next = "idle"]
    /\ UNCHANGED <<nops, ghostVars, raised>>

\* if len(self.cache) >= self.max_size:
PutTest(t) ==
    /\ pc[t] = "put_test"
    /\ IF Cardinality(DOMAIN cache_manager.cache) >= cache_manager.max_size
       THEN Goto(t, "evict_test") ELSE Goto(t, "memory_check")
    /\ UNCHANGED <<cache_manager, nops, ghostVars, frame, raised>>

\* if self.access_order:
EvictTest(t) ==
    /\ pc[t] = "evict_test"
    /\ IF cache_manager.access_order # <<>>
       THEN Goto(t, "evict_pop") ELSE Goto(t, "memory_check")
    /\ UNCHANGED <<cache_manager, nops, ghostVars, frame, raised>>

\* lru_key = self.access_order.pop(0)
EvictPop(t) ==
    /\ pc[t] = "evict_pop"
    /\ IF cache_manager.access_order # <<>>
       THEN /\ cache_manager' = [cache_manager EXCEPT !.access_order = Tail(@)]
            /\ frame' = [frame EXCEPT
                    ![t].lru_key = Head(cache_manager.access_order)]
            /\ Goto(t, "evict_lookup")
            /\ raised' = raised
       ELSE /\ Raise(t, "IndexError")
            /\ cache_manager' = cache_manager
    /\ UNCHANGED <<nops, ghostVars>>

\* if lru_key in self.cache:
EvictLookup(t) ==
    /\ pc[t] = "evict_lookup"
    /\ IF frame[t].lru_key \in DOMAIN cache_manager.cache
       THEN Goto(t, "evict_del") ELSE Goto(t, "memory_check")
    /\ UNCHANGED <<cache_manager, nops, ghostVars, frame, raised>>

\* del self.cache[lru_key]
EvictDel(t) ==
    /\ pc[t] = "evict_del"
    /\ IF frame[t].lru_key \in DOMAIN cache_manager.cache
       THEN /\ cache_manager' = [cache_manager EXCEPT
                    !.cache = DictDel(@, frame[t].lru_key)]
            /\ Increment(t, "evictions", "memory_check")
            /\ raised' = raised
       ELSE /\ Raise(t, "KeyError")
            /\ cache_manager' = cache_manager
    /\ UNCHANGED <<nops, ghostVars>>

\* if MemoryManager.check_memory_limit(self.max_memory_mb):
MemoryCheck(t) ==
    /\ pc[t] = "memory_check"
    /\ \E memory_exceeded \in BOOLEAN :
          IF memory_exceeded THEN Goto(t, "clear_cache") ELSE Goto(t, "store")
    /\ UNCHANGED <<cache_manager, nops, ghostVars, frame, raised>>

\* self.cache.clear()
ClearCache(t) ==
    /\ pc[t] = "clear_cache"
    /\ cache_manager' = [cache_manager EXCEPT !.cache = <<>>]
    /\ Goto(t, "clear_order")
    /\ UNCHANGED <<nops, ghostVars, frame, raised>>

\* self.access_order.clear()
ClearOrder(t) ==
    /\ pc[t] = "clear_order"
    /\ cache_manager' = [cache_manager EXCEPT !.access_order = <<>>]
    /\ Goto(t, "store")
    /\ UNCHANGED <<nops, ghostVars, frame, raised>>

\* self.cache[key] = value
Store(t) ==
    /\ pc[t] = "store"
    /\ cache_manager' = [cache_manager EXCEPT
            !.cache = DictSet(@, frame[t].key, frame[t].value[1])]
    /\ Goto(t, "order_test")
    /\ UNCHANGED <<nops, ghostVars, frame, raised>>

\* if key in self.access_order:
OrderTest(t) ==
    /\ pc[t] = "order_test"
    /\ IF frame[t].key \in Range(cache_manager.access_order)
       THEN Goto(t, "order_remove") ELSE Goto(t, "order_append")
    /\ UNCHANGED <<cache_manager, nops, ghostVars, frame, raised>>

\* self.access_order.remove(key)
OrderRemove(t) ==
    /\ pc[t] = "order_remove"
    /\ IF frame[t].key \in Range(cache_manager.access_order)
       THEN /\ cache_manager' = [cache_manager EXCEPT
                    !.access_order = ListRemove(@, frame[t].key)]
            /\ Goto(t, "order_append")
            /\ UNCHANGED <<frame, raised>>
       ELSE /\ Raise(t, "ValueError")
            /\ cache_manager' = cache_manager
    /\ UNCHANGED <<nops, ghostVars>>

\* self.access_order.append(key)
OrderAppend(t) ==
    /\ pc[t] = "order_append"
    /\ cache_manager' = [cache_manager EXCEPT
            !.access_order = Append(@, frame[t].key)]
    /\ Return(t)
    /\ UNCHANGED <<nops, ghostVars>>

(* ------------------------ extract_text_from_pdf ----------------------- *)
\* list(range(a, b))
RangeList(a, b) == [i \in 1 .. Max(b - a, 0) |-> a + i - 1]

\* sorted(list(S)): the i-th entry is the member with i - 1 members below it
Sorted(S) ==
    [i \in 1 .. Cardinality(S) |->
        CHOOSE x \in S : Cardinality({y \in S : y < x}) = i - 1]

\* sampling that takes the two pages from the midpoint on
sample_pages_from_midpoint(page_count) ==
    IF page_count > 10
    THEN LET first == RangeList(0, Min(3, page_count))
             middle_start == page_count \div 2
             middle == IF page_count > 6
                       THEN RangeList(middle_start,
                                      Min(middle_start + 2, page_count))
                       ELSE <<>>
             final == IF page_count > 3
                      THEN RangeList(Max(page_count - 2, 0), page_count)
                      ELSE <<>>
         IN  Sorted(Range(first \o middle \o final))
    ELSE RangeList(0, page_count)

\* the pages extract_text_from_pdf iterates over
sample_pages(page_count) ==
    IF page_count > 10
    THEN LET first == RangeList(0, Min(3, page_count))
             middle_start == page_count \div 2 - 1
             middle == IF page_count > 6
                       THEN RangeList(middle_start,
                                      Min(middle_start + 2, page_count))
                       ELSE <<>>
             final == IF page_count > 3
                      THEN RangeList(Max(page_count - 2, 0), page_count)
                      ELSE <<>>
         IN  Sorted(Range(first \o middle \o final))
    ELSE RangeList(0, page_count)

\* a repair budget that admits one attempt more
MayRepair_inclusive(attempt) == attempt <= text_repair_attempts

\* attempt < self.text_repair_attempts
MayRepair(attempt) == attempt < text_repair_attempts

\* the bytes a call works on: the request's pdf_content or what
\* _clean_pdf_content made of it
Contents == {"original", "cleaned"}

\* _clean_pdf_content: cleaning cleaned bytes changes nothing
_clean_pdf_content(content) == "cleaned"

\* fitz.open(stream = content) succeeds
ContentOpens(doc, content) ==
    IF content = "original" THEN doc.opens ELSE doc.cleaned_opens

\* a text is the placeholder "No text extracted" or the texts of the listed
\* pages, each followed by a newline, in the order listed
PageTexts(text_pages) == [placeholder |-> FALSE, pages |-> text_pages]
NoTextExtracted == [placeholder |-> TRUE, pages |-> <<>>]

\* bool(text_content.strip()) for the text of the listed pages
Stripped(doc, text_pages) ==
    \E i \in DOMAIN text_pages : HasVisibleText(KindOf(doc, text_pages[i]))

\* a final expression that returns text_content as it is
text_content_unchecked(doc, text_pages) == PageTexts(text_pages)

\* text_content if text_content.strip() else "No text extracted"
text_content_or_placeholder(doc, text_pages) ==
    IF Stripped(doc, text_pages) THEN PageTexts(text_pages) ELSE NoTextExtracted

\* a call of extract_text_from_pdf or _repair_and_retry
Frame(fn, pdf_content, attempt) ==
    [fn |-> fn, pdf_content |-> pdf_content, attempt |-> attempt,
     pc |-> IF fn = "extract_text_from_pdf" THEN "open" ELSE "encodings",
     encoding |-> 1, sample_pages |-> <<>>, index |-> 1, visited |-> <<>>,
     text_pages |-> <<>>, extracted_chars |-> 0, broke |-> FALSE]

NoReturn == [kind |-> "none", text |-> None, exc |-> NoExc]
ReturnText(text) == [kind |-> "return", text |-> Some(text), exc |-> NoExc]
RaiseExc(exc) == [kind |-> "raise", text |-> None, exc |-> exc]

Top == stack[Len(stack)]
Running(fn, label) ==
    /\ stack # <<>>
    /\ Top.fn = fn
    /\ Top.pc = label

\* the running call goes on as frame f
Continue(f) == stack' = [stack EXCEPT ![Len(stack)] = f]
\* the running call calls fn(pdf_content, attempt) and waits at label
CallFrom(label, fn, pdf_content, attempt) ==
    stack' = Append([stack EXCEPT ![Len(stack)].pc = label],
                    Frame(fn, pdf_content, attempt))
\* the running call ends
Pop == stack' = SubSeq(stack, 1, Len(stack) - 1)

\* a page loop without the try around the page: a failing page leaves it
visit_page_unprotected(f, doc) ==
    LET page_num == f.sample_pages[f.index]
        kind     == KindOf(doc, page_num)
        seen     == [f EXCEPT !.visited = Append(@, page_num)]
        chars    == f.extracted_chars + TextLen(kind)
        atEnd    == f.index = Len(f.sample_pages)
    IN  IF kind = "fail"
        THEN [seen EXCEPT !.pc = "except"]
        ELSE [seen EXCEPT !.text_pages = Append(@, page_num),
                          !.extracted_chars = chars,
                          !.index = @ + 1,
                          !.broke = chars > max_chars,
                          !.pc = IF chars > max_chars \/ atEnd
                                 THEN "close" ELSE "pages"]

\* one iteration of `for page_num in sample_pages` on frame f
visit_page(f, doc) ==
    LET page_num == f.sample_pages[f.index]
        kind     == KindOf(doc, page_num)
        seen     == [f EXCEPT !.visited = Append(@, page_num)]
        chars    == f.extracted_chars + TextLen(kind)
        atEnd    == f.index = Len(f.sample_pages)
    IN  IF kind = "fail"
        THEN [seen EXCEPT !.index = @ + 1,
                          !.pc = IF atEnd THEN "close" ELSE "pages"]
        ELSE [seen EXCEPT !.text_pages = Append(@, page_num),
                          !.extracted_chars = chars,
                          !.index = @ + 1,
                          !.broke = chars > max_chars,
                          !.pc = IF chars > max_chars \/ atEnd
                                 THEN "close" ELSE "pages"]

NoRun == [opens |-> 0, repairs |-> 0, first |-> None]

\* a step of the text extraction inside extract_from_base64
TextStep ==
    /\ stage = "extract_text"
    /\ UNCHANGED <<cacheVars, threadVars, textVars, request, stage, locals, outcome, http>>

\* pdf_document = fitz.open(stream=pdf_content, filetype="pdf"), page_count
\* and sample_pages
Open ==
    /\ TextStep
    /\ Running("extract_text_from_pdf", "open")
    /\ run' = [run EXCEPT !.opens = @ + 1]
    /\ ret' = ret
    /\ IF ContentOpens(request.doc, Top.pdf_content)
       THEN LET pages == sample_pages(request.doc.page_count)
            IN  Continue([Top EXCEPT !.sample_pages = pages,
                                     !.pc = IF pages = <<>> THEN "close"
                                            ELSE "pages"])
       ELSE Continue([Top EXCEPT !.pc = "except"])

\* for page_num in sample_pages: one page
LoadPage ==
    /\ TextStep
    /\ Running("extract_text_from_pdf", "pages")
    /\ Continue(visit_page(Top, request.doc))
    /\ UNCHANGED <<ret, run>>

\* pdf_document.close() and what follows the loop: repair or return
Close ==
    /\ TextStep
    /\ Running("extract_text_from_pdf", "close")
    /\ LET f == Top
           repair == ~Stripped(request.doc, f.text_pages) /\ MayRepair(f.attempt)
       IN  /\ run' = [run EXCEPT
                        !.first = IF Len(stack) = 1 THEN Some(f) ELSE @,
                        !.repairs = IF repair THEN @ + 1 ELSE @]
           /\ IF repair
              THEN /\ CallFrom("repair_call", "_repair_and_retry",
                               f.pdf_content, f.attempt + 1)
                   /\ ret' = NoReturn
              ELSE /\ Pop
                   /\ ret' = ReturnText(
                        text_content_or_placeholder(request.doc, f.text_pages))

\* return self._repair_and_retry(...) inside the try: what it returns is
\* returned, what it raises reaches the except clause
AfterRepair ==
    /\ TextStep
    /\ Running("extract_text_from_pdf", "repair_call")
    /\ ret.kind # "none"
    /\ run' = run
    /\ IF ret.kind = "return"
       THEN Pop /\ ret' = ret
       ELSE Continue([Top EXCEPT !.pc = "except"]) /\ ret' = NoReturn

\* except Exception: repair while attempts remain, else raise ValueError
Except ==
    /\ TextStep
    /\ Running("extract_text_from_pdf", "except")
    /\ IF MayRepair(Top.attempt)
       THEN /\ CallFrom("handler_call", "_repair_and_retry",
                        Top.pdf_content, Top.attempt + 1)
            /\ ret' = NoReturn
            /\ run' = [run EXCEPT !.repairs = @ + 1]
       ELSE /\ Pop
            /\ ret' = RaiseExc("ValueError")
            /\ run' = run

\* return self._repair_and_retry(...) inside the except clause
AfterHandlerRepair ==
    /\ TextStep
    /\ Running("extract_text_from_pdf", "handler_call")
    /\ ret.kind # "none"
    /\ Pop
    /\ UNCHANGED <<ret, run>>

(* -------------------------- _repair_and_retry ------------------------- *)
\* for encoding in self.encoding_fallbacks: pdf_content is bytes, so the
\* extraction is retried on the same bytes
TryEncoding ==
    /\ TextStep
    /\ Running("_repair_and_retry", "encodings")
    /\ CallFrom("encoding_call", "extract_text_from_pdf",
                Top.pdf_content, Top.attempt)
    /\ ret' = NoReturn
    /\ run' = run

\* except (UnicodeError, ValueError): continue
AfterEncoding ==
    /\ TextStep
    /\ Running("_repair_and_retry", "encoding_call")
    /\ ret.kind # "none"
    /\ run' = run
    /\ IF ret.kind = "return"
       THEN Pop /\ ret' = ret
       ELSE /\ ret' = NoReturn
            /\ IF ret.exc \in {"ValueError", "UnicodeError"}
               THEN Continue([Top EXCEPT
                        !.encoding = @ + 1,
                        !.pc = IF Top.encoding < Len(encoding_fallbacks)
                               THEN "encodings" ELSE "clean"])
               ELSE Continue([Top EXCEPT !.pc = "except"])

\* cleaned_content = self._clean_pdf_content(pdf_content) and the retry on it
CleanAndRetry ==
    /\ TextStep
    /\ Running("_repair_and_retry", "clean")
    /\ CallFrom("clean_call", "extract_text_from_pdf",
                _clean_pdf_content(Top.pdf_content), Top.attempt)
    /\ ret' = NoReturn
    /\ run' = run

AfterClean ==
    /\ TextStep
    /\ Running("_repair_and_retry", "clean_call")
    /\ ret.kind # "none"
    /\ run' = run
    /\ IF ret.kind = "return"
       THEN Pop /\ ret' = ret
       ELSE Continue([Top EXCEPT !.pc = "except"]) /\ ret' = NoReturn

\* except Exception: retry the extraction while attempts remain, else raise
RepairExcept ==
    /\ TextStep
    /\ Running("_repair_and_retry", "except")
    /\ run' = run
    /\ IF MayRepair(Top.attempt)
       THEN /\ CallFrom("retry_call", "extract_text_from_pdf",
                        Top.pdf_content, Top.attempt)
            /\ ret' = NoReturn
       ELSE /\ Pop
            /\ ret' = RaiseExc("ValueError")

\* return self.extract_text_from_pdf(pdf_content, attempt) in the except clause
AfterRetry ==
    /\ TextStep
    /\ Running("_repair_and_retry", "retry_call")
    /\ ret.kind # "none"
    /\ Pop
    /\ UNCHANGED <<ret, run>>

(* ------------------------- extract_from_base64 ------------------------ *)
\* the documents a request carries: documents that open, documents only
\* their cleaned bytes open, and bytes that never open
OpeningDocs ==
    {Document(n, TRUE, TRUE, kinds, FALSE, 1, 1, 1) :
        n \in 0 .. MaxPages, kinds \in PagePatterns}
RepairableDocs ==
    {Document(n, FALSE, TRUE, kinds, FALSE, 1, 1, 1) :
        n \in {1, MaxPages}, kinds \in PagePatterns}
BrokenDoc == Document(0, FALSE, FALSE, AllText, FALSE, 1, 1, 1)
PipeDocs == OpeningDocs \cup RepairableDocs \cup {BrokenDoc}

\* base64_content: the document it encodes, or a string b64decode rejects
Requests ==
    {[doc |-> d, decodes |-> TRUE] : d \in PipeDocs}
    \cup {[doc |-> BrokenDoc, decodes |-> FALSE]}
NoRequest == [doc |-> BrokenDoc, decodes |-> FALSE]

NoLocals ==
    [pdf_analysis |-> None, text_content |-> None, page_count |-> 0,
     transactions |-> <<>>, quality_metrics |-> None, exc |-> NoExc]
NoOutcome == [result |-> None, error |-> None]

RawTransaction ==
    [date |-> "2024-01-02", description |-> "ACH Deposit - Salary",
     amount |-> 3000]

\* the exceptions that are ValueError or a subclass of it
IsValueError(exc) == exc \in {"ValueError", "UnicodeError", "binascii.Error"}

\* the scoring without its `if not transactions` guard: every ratio of an
\* empty list is 0 and the overall score is base_confidence * 0.3
_calculate_extraction_quality_unguarded(transactions, text_content, pdf_analysis) ==
    IF transactions = <<>>
    THEN [exc |-> NoExc,
          result |-> Some([overall_confidence  |->
                               (pdf_analysis[1].extraction_confidence * 3) \div 10,
                           data_completeness   |-> 0,
                           date_validity       |-> 0,
                           amount_validity     |-> 0,
                           description_quality |-> 0,
                           consistency_score   |-> 0])]
    ELSE [exc |-> "TypeError", result |-> None]

\* _calculate_extraction_quality: the fixed metrics of an empty list; on a
\* non-empty list sum() adds a list to 0 and raises TypeError
_calculate_extraction_quality(transactions, text_content, pdf_analysis) ==
    IF transactions = <<>>
    THEN [exc |-> NoExc,
          result |-> Some([overall_confidence  |-> Scale \div 10,
                           data_completeness   |-> 0,
                           date_validity       |-> 0,
                           amount_validity     |-> 0,
                           description_quality |-> 0,
                           consistency_score   |-> 0])]
    ELSE [exc |-> "TypeError", result |-> None]

\* schemas.ExtractionResult keeps transactions, page_count and
\* transaction_count and ignores the other keyword arguments
ExtractionResult(transactions, page_count, transaction_count, confidence, metrics) ==
    [transactions |-> transactions, page_count |-> page_count,
     transaction_count |-> transaction_count]

\* a handler that wraps ValueError only and lets the rest escape
raise_wrapping_value_errors(exc) ==
    IF IsValueError(exc)
    THEN [type |-> "ValueError",
          message |-> <<"Failed to extract data from PDF", exc>>]
    ELSE [type |-> exc, message |-> <<exc>>]

\* except Exception as e: raise ValueError(f"Failed to extract data from
\* PDF: {str(e)}")
raise_wrapped(exc) ==
    [type |-> "ValueError",
     message |-> <<"Failed to extract data from PDF", exc>>]

PipeStep(from) ==
    /\ stage = from
    /\ UNCHANGED <<threadVars, textVars, request, http>>

\* pdf_content = base64.b64decode(base64_content)
Decode ==
    /\ PipeStep("decode")
    /\ IF request.decodes
       THEN stage' = "analyze" /\ locals' = locals
       ELSE stage' = "except" /\ locals' = [locals EXCEPT !.exc = "binascii.Error"]
    /\ UNCHANGED <<cacheVars, stack, ret, run, outcome>>

\* pdf_analysis = self.pdf_extractor.analyze_pdf_structure(pdf_content)
AnalyzeContent ==
    /\ PipeStep("analyze")
    /\ \E memory_exceeded \in BOOLEAN :
          LET out == analyze_pdf_structure(cache_manager, request.doc,
                                           memory_exceeded)
          IN  /\ Analyze(request.doc, memory_exceeded)
              /\ IF out.exc # NoExc
                 THEN /\ stage' = "except"
                      /\ locals' = [locals EXCEPT !.exc = out.exc]
                 ELSE /\ stage' = "extract_text"
                      /\ locals' = [locals EXCEPT !.pdf_analysis = out.result]
    /\ UNCHANGED <<stack, ret, run, outcome>>

\* self.pdf_extractor.extract_text_from_pdf(pdf_content): the call
CallExtractText ==
    /\ PipeStep("extract_text")
    /\ stack = <<>> /\ ret.kind = "none"
    /\ stack' = <<Frame("extract_text_from_pdf", "original", 0)>>
    /\ UNCHANGED <<cacheVars, stage, locals, ret, run, outcome>>

\* text_content = ... ; page_count = pdf_analysis['page_count']
TextReturned ==
    /\ PipeStep("extract_text")
    /\ stack = <<>> /\ ret.kind # "none"
    /\ IF ret.kind = "return"
       THEN /\ stage' = "structure"
            /\ locals' = [locals EXCEPT
                    !.text_content = ret.text,
                    !.page_count = locals.pdf_analysis[1].page_count]
       ELSE /\ stage' = "except"
            /\ locals' = [locals EXCEPT !.exc = ret.exc]
    /\ UNCHANGED <<cacheVars, stack, ret, run, outcome>>

\* structured_data = extract_structured_data(text_content), converted to a
\* list of RawTransaction: the records found depend on the text; the
\* placeholder text holds none
ExtractStructured ==
    /\ PipeStep("structure")
    /\ \E n \in 0 .. MaxTxns :
          /\ locals.text_content[1].placeholder => n = 0
          /\ locals' = [locals EXCEPT
                    !.transactions = [i \in 1 .. n |-> RawTransaction]]
    /\ stage' = "quality"
    /\ UNCHANGED <<cacheVars, stack, ret, run, outcome>>

\* quality_metrics = self._calculate_extraction_quality(...)
ScoreQuality ==
    /\ PipeStep("quality")
    /\ LET q == _calculate_extraction_quality(locals.transactions,
                    locals.text_content, locals.pdf_analysis)
       IN  IF q.exc # NoExc
           THEN /\ stage' = "except"
                /\ locals' = [locals EXCEPT !.exc = q.exc]
           ELSE /\ stage' = "build"
                /\ locals' = [locals EXCEPT !.quality_metrics = q.result]
    /\ UNCHANGED <<cacheVars, stack, ret, run, outcome>>

\* result = ExtractionResult(...); return result
BuildResult ==
    /\ PipeStep("build")
    /\ outcome' = [outcome EXCEPT !.result = Some(ExtractionResult(
            locals.transactions, locals.page_count, Len(locals.transactions),
            locals.quality_metrics[1].overall_confidence,
            locals.quality_metrics[1]))]
    /\ stage' = "done"
    /\ UNCHANGED <<cacheVars, locals, stack, ret, run>>

\* except Exception as e: raise ValueError(...)
HandleException ==
    /\ PipeStep("except")
    /\ outcome' = [outcome EXCEPT !.error = Some(raise_wrapped(locals.exc))]
    /\ stage' = "done"
    /\ UNCHANGED <<cacheVars, locals, stack, ret, run>>

\* no request has reached the endpoint, no text a function of the extractor
NoResponse == [status_code |-> 0, exc |-> None]
NoSubject == [kind |-> "none", layout |-> "", text |-> "", parts |-> <<>>]
NotApplied == [fn |-> "none", out |-> None, again |-> None]
HttpIdle == http = NoResponse
TextIdle == subject = NoSubject /\ applied = NotApplied

PipeIdle ==
    /\ request = NoRequest
    /\ stage = "idle"
    /\ locals = NoLocals
    /\ stack = <<>>
    /\ ret = NoReturn
    /\ run = NoRun
    /\ outcome = NoOutcome

PipeInit ==
    /\ cache_manager = CacheManager(default_max_size)
    /\ nops = 0 /\ recency = <<>> /\ inserted = <<>> /\ last = NoCall
    /\ ThreadsIdle /\ TextIdle /\ HttpIdle
    /\ request \in Requests
    /\ stage = "decode"
    /\ locals = NoLocals
    /\ stack = <<>>
    /\ ret = NoReturn
    /\ run = NoRun
    /\ outcome = NoOutcome

PipeNext ==
    \/ Decode \/ AnalyzeContent \/ CallExtractText \/ TextReturned
    \/ ExtractStructured \/ ScoreQuality \/ BuildResult \/ HandleException
    \/ Open \/ LoadPage \/ Close \/ AfterRepair \/ Except \/ AfterHandlerRepair
    \/ TryEncoding \/ AfterEncoding \/ CleanAndRetry \/ AfterClean
    \/ RepairExcept \/ AfterRetry

(* ------------------------ POST /extract-base64 ------------------------- *)
HTTPException(status_code) == [type |-> "HTTPException", status_code |-> status_code]

\* request.file_content: what it decodes to, if it decodes, and whether
\* that is zero bytes
HttpRequests ==
    {[doc |-> d, decodes |-> TRUE, empty |-> FALSE] : d \in PipeDocs}
    \cup {[doc |-> BrokenDoc, decodes |-> FALSE, empty |-> FALSE],
          [doc |-> BrokenDoc, decodes |-> TRUE, empty |-> TRUE]}

\* the handlers of the endpoint without `except HTTPException: raise`
response_status_of_any_exception(exc) ==
    IF exc.type = "ValueError" THEN 422 ELSE 500

\* the status of the response when exc leaves the body of the endpoint
response_status(exc) ==
    IF exc.type = "HTTPException" THEN exc.status_code
    ELSE IF exc.type = "ValueError" THEN 422
    ELSE 500

\* test_decode = base64.b64decode(request.file_content) and the test of
\* its length; either failure raises HTTPException(400) inside the outer try
Validate ==
    /\ stage = "validate"
    /\ IF ~request.decodes \/ request.empty
       THEN /\ http' = [status_code |-> response_status(HTTPException(400)),
                        exc |-> Some(HTTPException(400))]
            /\ stage' = "rejected"
       ELSE /\ http' = http
            /\ stage' = "decode"
    /\ UNCHANGED <<cacheVars, threadVars, textVars, request, locals, stack, ret, run, outcome>>

\* return result, or the handler of what extract_from_base64 raised
Respond ==
    /\ stage = "done" /\ http = NoResponse
    /\ IF outcome.error # None
       THEN http' = [status_code |-> response_status(outcome.error[1]),
                     exc |-> outcome.error]
       ELSE http' = [status_code |-> 200, exc |-> None]
    /\ UNCHANGED <<cacheVars, threadVars, textVars, pipeVars>>

HttpInit ==
    /\ cache_manager = CacheManager(default_max_size)
    /\ nops = 0 /\ recency = <<>> /\ inserted = <<>> /\ last = NoCall
    /\ ThreadsIdle /\ TextIdle /\ HttpIdle
    /\ request \in HttpRequests
    /\ stage = "validate"
    /\ locals = NoLocals
    /\ stack = <<>>
    /\ ret = NoReturn
    /\ run = NoRun
    /\ outcome = NoOutcome

HttpNext ==
    \/ Validate \/ Respond
    \/ Decode \/ AnalyzeContent \/ CallExtractText \/ TextReturned
    \/ ExtractStructured \/ ScoreQuality \/ BuildResult \/ HandleException
    \/ Open \/ LoadPage \/ Close \/ AfterRepair \/ Except \/ AfterHandlerRepair
    \/ TryEncoding \/ AfterEncoding \/ CleanAndRetry \/ AfterClean
    \/ RepairExcept \/ AfterRetry

(* ---------------- the texts the extractor's functions are given -------- *)

\* the sequences of 1 .. n elements of S
SeqsUpTo(S, n) == UNION {[1 .. k -> S] : k \in 1 .. n}

\* one line of words, some of them keywords of the classifier
Words == {"Bank", "deposit", "uber", "Trip", "hello", "account balance"}
WordTexts ==
    {[kind |-> "words", layout |-> "", text |-> join(" ", w), parts |-> w] :
        w \in SeqsUpTo(Words, MaxItems)}

\* lines, some of them with the marks the table detector looks for
Lines ==
    {"a   b", "Date", "01/02/2024 $5.00", "Date   01/02/2024   $5.00",
     "uber trip"}
LineTexts ==
    {[kind |-> "lines", layout |-> "", text |-> join("\n", l), parts |-> l] :
        l \in SeqsUpTo(Lines, MaxItems)}

\* the lines of the scenarios, alone and among other lines
ScenarioA == "01/02/2024  ACH Deposit - Salary            $3,000.00"
ScenarioB == "Uber trip 05/10/2024 fare $12.50 tip $3.00"
Statements ==
    {[kind |-> "statement", layout |-> "", text |-> join("\n", l), parts |-> l] :
        l \in {<<ScenarioA>>,
               <<ScenarioB>>,
               <<"01/02/2024 Bank deposit $0.00">>,
               <<"Weekly summary", ScenarioB, "Thank you">>}}

\* date strings: two fields and a year around separators, either end first
DateFields == {"0", "02", "13", "29", "31"}
Years == {"2024", "2023", "0999", "24", "024"}
SeparatorPairs ==
    {<<"/", "/">>, <<"-", "-">>, <<".", ".">>, <<"/", "-">>, <<".", "/">>}
NumericDates ==
    {[kind |-> "date", layout |-> "year_last",
      text |-> a \o s[1] \o b \o s[2] \o y, parts |-> <<a, s[1], b, s[2], y>>] :
        a \in DateFields, b \in DateFields, y \in Years, s \in SeparatorPairs}
    \cup
    {[kind |-> "date", layout |-> "year_first",
      text |-> y \o s[1] \o a \o s[2] \o b, parts |-> <<y, s[1], a, s[2], b>>] :
        a \in DateFields, b \in DateFields, y \in {"2024", "2023", "0999"},
        s \in {<<"/", "/">>, <<"-", "-">>, <<"/", "-">>}}
\* a day, an ordinal suffix or none, the name of a month, a year
NamedDates ==
    {[kind |-> "date", layout |-> "named",
      text |-> d \o x \o " " \o m \o " " \o y, parts |-> <<d, x, m, y>>] :
        d \in {"0", "1", "29", "31"}, x \in {"", "st", "TH"},
        m \in {"Feb", "February", "May", "Dec", "december"},
        y \in {"2024", "2023"}}
\* strings of no such layout
OtherDates ==
    {[kind |-> "date", layout |-> "other", text |-> t, parts |-> <<t>>] :
        t \in {"", "hello", " 12/12/2024 ", "1stst January 2024", "5Jan2024"}}
Dates == NumericDates \cup NamedDates \cup OtherDates

\* amounts: a currency symbol or none, leading digits, groups of three
\* digits after thousands separators, two decimals
Amounts ==
    {[kind |-> "amount", layout |-> "",
      text |-> c \o n \o join("", [i \in 1 .. Len(g) |-> "," \o g[i]]) \o "." \o f,
      parts |-> <<c, n, f>> \o g] :
        c \in {"", "$", "$ ", "USD ", "aud"}, n \in {"1", "12"},
        f \in {"00", "05", "56", "99"},
        g \in SeqsUpTo({"000", "234", "999"}, MaxGroups)}

\* transaction lines: a date, cue words (a debit keyword, a credit keyword,
\* a secondary keyword, a word that is no keyword), a minus sign or none,
\* an amount
BankCues == {"Fee", "Refund", "ATM", "Lunch"}
BankLines ==
    {[kind |-> "bank_line", layout |-> "",
      text |-> "01/02/2024 " \o join(" ", w) \o " " \o m \o a,
      parts |-> <<m, a>> \o w] :
        m \in {"", "-"}, a \in {"$5.00", "$0.00"}, w \in SeqsUpTo(BankCues, MaxCues)}

\* lines with an amount: a minus sign at the start or none, a word (an
\* outflow word, a word with a hyphen, another word) or none, an amount
AmountLines ==
    {[kind |-> "amount_line", layout |-> "", text |-> m \o w \o a, parts |-> <<m, w, a>>] :
        m \in {"", "-"}, w \in {"", "fee ", "refund ", "co-op "},
        a \in {"$5.00", "12.50"}}

\* texts of transactions: a header row of a table or none, then rows: a
\* dated line, one with a short description, one with a zero amount, and
\* a row of columns that has no date
GeneralRows ==
    {"01/02/2024 Latte $5.00", "01/02/2024 ab $5.00", "01/02/2024 Latte $0.00",
     "Coffee shop   Latte   $5.00"}
GeneralTexts ==
    {[kind |-> "general", layout |-> "", text |-> h \o join("\n", rows),
      parts |-> <<h>> \o rows] :
        h \in {"", "Date   Description   Amount\n"}, rows \in SeqsUpTo(GeneralRows, MaxRows)}

(* ------------------- the functions applied to a text -------------------- *)
Apply(fn, out) ==
    /\ applied = NotApplied
    /\ applied' = [fn |-> fn, out |-> Some(out), again |-> None]
    /\ UNCHANGED <<cacheVars, threadVars, pipeVars, subject, http>>

\* self.detect_document_type(text)
DetectDocumentType ==
    /\ subject.kind \in {"words", "lines", "statement"}
    /\ Apply("detect_document_type", detect_document_type(subject.text))

\* self._detect_tables(text)
DetectTables ==
    /\ subject.kind \in {"words", "lines", "statement"}
    /\ Apply("_detect_tables", _detect_tables(subject.text))

\* self._extract_bank_data(text).transactions
ExtractBankData ==
    /\ subject.kind = "statement"
    /\ Apply("_extract_bank_data", _extract_bank_data(subject.text))

\* self._extract_rideshare_data(text)
ExtractRideshareData ==
    /\ subject.kind = "statement"
    /\ Apply("_extract_rideshare_data", _extract_rideshare_data(subject.text))

\* structured_data = self.structured_extractor.extract_structured_data(text)
ExtractStructuredData ==
    /\ subject.kind \in {"words", "lines", "statement"}
    /\ Apply("extract_structured_data", extract_structured_data(subject.text))

\* transactions = self._convert_to_raw_transactions(structured_data), for
\* a TransactionList or a RideshareTaxSummary
ConvertToRaw ==
    /\ applied.fn = "extract_structured_data" /\ applied.again = None
    /\ applied.out[1].type \in {"TransactionList", "RideshareTaxSummary"}
    /\ applied' = [applied EXCEPT
                      !.again = Some(_convert_to_raw_transactions(applied.out[1]))]
    /\ UNCHANGED <<cacheVars, threadVars, pipeVars, subject, http>>

\* self._normalize_date(date_str)
NormalizeDate ==
    /\ subject.kind = "date"
    /\ Apply("_normalize_date", _normalize_date(subject.text))

\* self._normalize_date(date_str) once more, on what it returned
NormalizeAgain ==
    /\ applied.fn = "_normalize_date" /\ applied.again = None
    /\ applied' = [applied EXCEPT !.again = Some(_normalize_date(applied.out[1]))]
    /\ UNCHANGED <<cacheVars, threadVars, pipeVars, subject, http>>

\* self._extract_amount_improved(text)
ExtractAmount ==
    /\ subject.kind \in {"amount", "amount_line"}
    /\ Apply("_extract_amount_improved", _extract_amount_improved(subject.text))

\* self._parse_bank_line(line)
ParseBankLine ==
    /\ subject.kind = "bank_line"
    /\ Apply("_parse_bank_line", _parse_bank_line(subject.text))

\* self._extract_general_transactions(text)
ExtractGeneral ==
    /\ subject.kind = "general"
    /\ Apply("_extract_general_transactions", _extract_general_transactions(subject.text))

\* a text of `subjects` is about to be given to a function of the extractor
TextInit(subjects) ==
    /\ cache_manager = CacheManager(default_max_size)
    /\ nops = 0 /\ recency = <<>> /\ inserted = <<>> /\ last = NoCall
    /\ ThreadsIdle /\ PipeIdle /\ HttpIdle
    /\ subject \in subjects
    /\ applied = NotApplied

DocsInit == TextInit(WordTexts \cup LineTexts \cup Statements)

DocsNext ==
    \/ DetectDocumentType \/ DetectTables
    \/ ExtractBankData \/ ExtractRideshareData
    \/ ExtractStructuredData \/ ConvertToRaw

DatesInit == TextInit(Dates)

DatesNext == NormalizeDate \/ NormalizeAgain

AmountsInit == TextInit(Amounts)

AmountsNext == ExtractAmount

LinesInit == TextInit(BankLines \cup AmountLines \cup GeneralTexts)

LinesNext == ParseBankLine \/ ExtractAmount \/ ExtractGeneral

Init == CacheInit /\ ThreadsIdle /\ PipeIdle /\ TextIdle /\ HttpIdle

ConcInit == CacheInit /\ ThreadsIdle /\ PipeIdle /\ TextIdle /\ HttpIdle

ConcNext ==
    \E t \in Threads :
        \/ \E key \in Keys : CallGet(t, key) /\ UNCHANGED <<pipeVars, textVars, http>>
        \/ \E key \in Keys :
                CallPut(t, key, error_analysis) /\ UNCHANGED <<pipeVars, textVars, http>>
        \/ GetTest(t) /\ UNCHANGED <<pipeVars, textVars, http>>
        \/ GetRemove(t) /\ UNCHANGED <<pipeVars, textVars, http>>
        \/ GetAppend(t) /\ UNCHANGED <<pipeVars, textVars, http>>
        \/ GetReturn(t) /\ UNCHANGED <<pipeVars, textVars, http>>
        \/ GetReturnNone(t) /\ UNCHANGED <<pipeVars, textVars, http>>
        \/ LoadCounter(t) /\ UNCHANGED <<pipeVars, textVars, http>>
        \/ StoreCounter(t) /\ UNCHANGED <<pipeVars, textVars, http>>
        \/ PutTest(t) /\ UNCHANGED <<pipeVars, textVars, http>>
        \/ EvictTest(t) /\ UNCHANGED <<pipeVars, textVars, http>>
        \/ EvictPop(t) /\ UNCHANGED <<pipeVars, textVars, http>>
        \/ EvictLookup(t) /\ UNCHANGED <<pipeVars, textVars, http>>
        \/ EvictDel(t) /\ UNCHANGED <<pipeVars, textVars, http>>
        \/ MemoryCheck(t) /\ UNCHANGED <<pipeVars, textVars, http>>
        \/ ClearCache(t) /\ UNCHANGED <<pipeVars, textVars, http>>
        \/ ClearOrder(t) /\ UNCHANGED <<pipeVars, textVars, http>>
        \/ Store(t) /\ UNCHANGED <<pipeVars, textVars, http>>
        \/ OrderTest(t) /\ UNCHANGED <<pipeVars, textVars, http>>
        \/ OrderRemove(t) /\ UNCHANGED <<pipeVars, textVars, http>>
        \/ OrderAppend(t) /\ UNCHANGED <<pipeVars, textVars, http>>

Next ==
    \/ \E key \in Keys : Get(key) /\ UNCHANGED <<threadVars, pipeVars, textVars, http>>
    \/ \E key \in Keys, value \in Values, m \in BOOLEAN :
            Put(key, value, m) /\ UNCHANGED <<threadVars, pipeVars, textVars, http>>
    \/ Clear /\ UNCHANGED <<threadVars, pipeVars, textVars, http>>
    \/ \E doc \in AnalysisDocs, m \in BOOLEAN :
            Analyze(doc, m) /\ UNCHANGED <<threadVars, pipeVars, textVars, http>>

vars == <<cacheVars, threadVars, pipeVars, textVars, http>>

\* one caller at a time: CacheManager's methods and analyze_pdf_structure
Spec == Init /\ [][Next]_vars

\* request threads interleaving get and put statement by statement
SpecConc == ConcInit /\ [][ConcNext]_vars

\* one extract_from_base64 request served from start to end
SpecPipe == PipeInit /\ [][PipeNext]_vars

\* the same request on an interpreter that keeps running the call
SpecPipeFair == SpecPipe /\ WF_vars(PipeNext)

\* one request to /extract-base64 answered
SpecHttp == HttpInit /\ [][HttpNext]_vars

\* detect_document_type, _detect_tables and the extractors applied to a text
SpecDocs == DocsInit /\ [][DocsNext]_vars

\* _normalize_date applied to a date string, and again to its result
SpecDates == DatesInit /\ [][DatesNext]_vars

\* _extract_amount_improved applied to an amount string
SpecAmounts == AmountsInit /\ [][AmountsNext]_vars

\* the line parsers, each given one generated line
SpecLines == LinesInit /\ [][LinesNext]_vars

(* ----------------------------- properties ----------------------------- *)

\* C3: whatever the interleaving of concurrent get and put calls, no call
\* raises, and once the calls have returned the keys of cache are the
\* keys of access_order, access_order has no duplicates and at most
\* max_size entries are stored.
C3_Serialized ==
    /\ \A t \in Threads : raised[t] = NoExc
    /\ (\A t \in Threads : pc[t] = "idle") =>
          /\ DOMAIN cache_manager.cache = Range(cache_manager.access_order)
          /\ Cardinality(Range(cache_manager.access_order))
               = Len(cache_manager.access_order)
          /\ Cardinality(DOMAIN cache_manager.cache) <= cache_manager.max_size

\* the latest call was a put of a key not stored before, into a manager
\* holding max_size entries, with the memory threshold not exceeded
EvictingPut ==
    /\ last.op = "put"
    /\ ~last.memory_exceeded
    /\ last.full
    /\ ~last.stored

\* the latest call was a put that directly followed a get hit
PutAfterGetHit ==
    /\ last.op = "put"
    /\ ~last.memory_exceeded
    /\ last.priorGet # None

\* C1 as stated: a put of a new key into a full cache removes exactly the
\* key least recently accessed by get or put, and a key read by a get
\* hit directly before a put is never the key that put removes, for every
\* capacity N >= 1.
C1_AsStated ==
    /\ (EvictingPut => last.removed = Range(last.lru))
    /\ (PutAfterGetHit => Range(last.priorGet) \cap last.removed = {})

\* C1 amended: a put of a new key into a full cache removes exactly the
\* key least recently accessed by get or put (whatever the insertion
\* order); a key read by a get hit directly before a put is not removed
\* by that put when the capacity is at least 2.
C1_LruEviction ==
    /\ (EvictingPut => last.removed = Range(last.lru) /\ last.lru # None)
    /\ (PutAfterGetHit /\ cache_manager.max_size >= 2
            => Range(last.priorGet) \cap last.removed = {})

\* an evicting put that followed a get hit and removed a key that was not
\* the earliest inserted one
C1_Witness ==
    /\ EvictingPut
    /\ PutAfterGetHit
    /\ cache_manager.max_size >= 2
    /\ last.removed = Range(last.lru)
    /\ last.lru # last.oldest
    /\ last.oldest = last.priorGet

\* C2: the number of stored entries never exceeds max_size.
C2_SizeBounded ==
    Cardinality(StoredKeys(cache_manager)) <= cache_manager.max_size

\* a put into a full manager has just run and the manager is full again
C2_Witness ==
    /\ last.op = "put"
    /\ last.full
    /\ last.removed # {}
    /\ Cardinality(StoredKeys(cache_manager)) = cache_manager.max_size

\* C4: analyze_pdf_structure called on the content of the directly
\* preceding analyze_pdf_structure call is a cache hit: the hit counter
\* grows by exactly one, the document is not opened, and the value
\* returned is the value the first call returned.
C4_RepeatIsHit ==
    (last.op = "analyze" /\ last.repeat) =>
        /\ last.hit
        /\ last.hits = 1
        /\ last.misses = 0
        /\ ~last.opened
        /\ last.exc = NoExc
        /\ last.result # None
        /\ last.result = last.priorResult

\* a repeated analysis that hit the entry a miss had stored before
C4_Witness ==
    /\ last.op = "analyze"
    /\ last.repeat
    /\ last.hit
    /\ cache_manager.cache_stats.misses >= 1

(* -------------------- properties of the text extraction --------------- *)
\* extract_text_from_pdf, called by extract_from_base64, has ended
TextEnded == stack = <<>> /\ ret.kind # "none"

\* the sample the claims describe: every page up to 10 pages, beyond that
\* the first three, the two around the midpoint and the last two
ExpectedPages(n) ==
    IF n > 10
    THEN Sorted({0, 1, 2} \cup {n \div 2 - 1, n \div 2} \cup {n - 2, n - 1})
    ELSE [i \in 1 .. n |-> i - 1]

\* the characters the first i pages of `pages` add up to
RECURSIVE CharsThrough(_, _, _)
CharsThrough(doc, pages, i) ==
    IF i = 0 THEN 0
    ELSE (IF KindOf(doc, pages[i]) = "fail" THEN 0
          ELSE TextLen(KindOf(doc, pages[i])))
         + CharsThrough(doc, pages, i - 1)

\* `pages` up to and including the page at which the accumulated length
\* first exceeds max_chars
UpToCeiling(doc, pages) ==
    LET over == {i \in DOMAIN pages : CharsThrough(doc, pages, i) > max_chars}
    IN  IF over = {} THEN pages
        ELSE SubSeq(pages, 1, CHOOSE i \in over : \A j \in over : i <= j)

\* the pages an extraction of the request's document gets to
ReachedPages ==
    UpToCeiling(request.doc, ExpectedPages(request.doc.page_count))

\* those of them that load and extract without raising
SuccessfulPages ==
    SelectSeq(ReachedPages, LAMBDA p : KindOf(request.doc, p) # "fail")

SomeReachedPage(kinds) ==
    \E i \in DOMAIN ReachedPages : KindOf(request.doc, ReachedPages[i]) \in kinds

\* C5: extract_from_base64 ends in exactly one of two ways: it returns an
\* ExtractionResult whose transaction_count is the length of its
\* transactions, or it raises a ValueError whose message starts with
\* 'Failed to extract data from PDF'; nothing is produced before the end.
C5_TwoOutcomes ==
    /\ stage # "done" => outcome = NoOutcome
    /\ stage = "done" =>
          \/ /\ outcome.error = None
             /\ outcome.result # None
             /\ outcome.result[1].transaction_count
                    = Len(outcome.result[1].transactions)
          \/ /\ outcome.result = None
             /\ outcome.error # None
             /\ outcome.error[1].type = "ValueError"
             /\ outcome.error[1].message[1] = "Failed to extract data from PDF"

\* a request that ended by wrapping an exception that is not a ValueError
C5_Witness ==
    /\ stage = "done"
    /\ outcome.error # None
    /\ ~IsValueError(locals.exc)
    /\ locals.transactions # <<>>

\* C6: when the document opens and the text extraction returns text,
\* extract_from_base64 returns an ExtractionResult and does not raise,
\* with zero records and with one or more records.
C6_NeverFails ==
    (stage = "done" /\ request.doc.opens /\ ret.kind = "return") =>
        /\ outcome.result # None
        /\ outcome.error = None

\* the document opens and none of its sampled pages yields any text
NoPageYieldsText ==
    /\ request.doc.opens
    /\ ~SomeReachedPage({"blank", "text", "big"})

\* C7 as stated: when the document opens but no sampled page yields any
\* text on any attempt, extract_text_from_pdf ends by raising and returns
\* no text value.
C7_AsStated ==
    (TextEnded /\ NoPageYieldsText) => ret.kind = "raise"

\* C7 amended: when the document opens but no sampled page yields any text
\* on any attempt, extract_text_from_pdf ends, after text_repair_attempts
\* repair attempts, by returning the placeholder "No text extracted"; it
\* does not raise.
C7_PlaceholderReturned ==
    (TextEnded /\ NoPageYieldsText) =>
        /\ ret = ReturnText(NoTextExtracted)
        /\ run.repairs = text_repair_attempts
        /\ run.opens = text_repair_attempts + 1

\* a document of failing and empty pages whose extraction has ended
C7_Witness ==
    /\ TextEnded
    /\ NoPageYieldsText
    /\ SomeReachedPage({"fail"})
    /\ SomeReachedPage({"empty"})
    /\ ret.kind = "return"

\* C8 as stated: when some sampled pages raise but at least one sampled
\* page yields non-empty text, extract_text_from_pdf returns the texts of
\* the successful pages in ascending page order, no error reaches the
\* caller and no repair attempt is started.
C8_AsStated ==
    (/\ TextEnded
     /\ request.doc.opens
     /\ SomeReachedPage({"fail"})
     /\ SomeReachedPage({"blank", "text", "big"})) =>
        /\ ret = ReturnText(PageTexts(SuccessfulPages))
        /\ run.repairs = 0

\* C8 amended: when some sampled pages raise but at least one sampled page
\* yields text with a character that is not whitespace,
\* extract_text_from_pdf returns the texts of the successful pages in
\* ascending page order, no error reaches the caller and no repair attempt
\* is started.
C8_FailingPagesSkipped ==
    (/\ TextEnded
     /\ request.doc.opens
     /\ SomeReachedPage({"fail"})
     /\ SomeReachedPage({"text", "big"})) =>
        /\ ret = ReturnText(PageTexts(SuccessfulPages))
        /\ run.repairs = 0
        /\ run.opens = 1

\* an extraction that skipped a failing page and returned several pages
C8_Witness ==
    /\ TextEnded
    /\ request.doc.opens
    /\ SomeReachedPage({"fail"})
    /\ SomeReachedPage({"text"})
    /\ ret.kind = "return"
    /\ Len(ret.text[1].pages) >= 2
    /\ Len(ret.text[1].pages) < Len(ReachedPages)

\* C9: extract_text_from_pdf terminates on every input, by returning or by
\* raising, and no call of extract_text_from_pdf or _repair_and_retry gets
\* an attempt above text_repair_attempts.
C9_Terminates ==
    /\ (stage = "extract_text") ~> TextEnded
    /\ [](\A i \in DOMAIN stack : stack[i].attempt <= text_repair_attempts)

\* bytes that no attempt could open: the recursion ended by raising
C9_Witness ==
    /\ TextEnded
    /\ ~request.doc.opens /\ ~request.doc.cleaned_opens
    /\ ret.kind = "raise"
    /\ run.opens > text_repair_attempts

\* the call of extract_text_from_pdf that has left its page loop
LoopLeft(f) ==
    /\ f.fn = "extract_text_from_pdf"
    /\ f.pc \in {"close", "repair_call"}

\* C10 as stated: the pages a call visits are exactly the expected sample
\* (seven distinct pages when page_count > 10), in ascending order.
C10_AsStated ==
    \A i \in DOMAIN stack :
        LoopLeft(stack[i]) =>
            stack[i].visited = ExpectedPages(request.doc.page_count)

\* C10 amended: the pages a call iterates over are exactly the expected
\* sample (seven distinct in-range pages when page_count > 10, else every
\* page), and it visits them in ascending order up to and including the
\* page at which the accumulated text exceeds max_chars.
C10_SampledPages ==
    \A i \in DOMAIN stack :
        LoopLeft(stack[i]) =>
            LET n == request.doc.page_count
            IN  /\ stack[i].sample_pages = ExpectedPages(n)
                /\ n > 10 => Len(stack[i].sample_pages) = 7
                /\ Range(stack[i].sample_pages) \subseteq 0 .. n - 1
                /\ stack[i].visited = ReachedPages
                /\ ~stack[i].broke => stack[i].visited = ExpectedPages(n)

\* a 15-page document whose extraction visited pages 0,1,2,6,7,13,14
C10_Witness ==
    /\ stack # <<>>
    /\ LoopLeft(Top)
    /\ request.doc.page_count = 15
    /\ Top.visited = <<0, 1, 2, 6, 7, 13, 14>>

(* ------------------------ properties of the scoring ------------------- *)
\* C13: when the list of extracted records is empty, the quality metrics
\* are overall_confidence = 0.1 and every sub-score = 0, whatever the text
\* and the structure analysis of the document.
C13_EmptyListScore ==
    (locals.quality_metrics # None /\ locals.transactions = <<>>) =>
        locals.quality_metrics[1] =
            [overall_confidence  |-> Scale \div 10,
             data_completeness   |-> 0,
             date_validity       |-> 0,
             amount_validity     |-> 0,
             description_quality |-> 0,
             consistency_score   |-> 0]

\* an empty list was scored for a document with real text whose structure
\* analysis gave the full base confidence
C13_Witness ==
    /\ locals.quality_metrics # None
    /\ locals.transactions = <<>>
    /\ ~locals.text_content[1].placeholder
    /\ locals.pdf_analysis[1].extraction_confidence = (9 * Scale) \div 10

\* C18: the ExtractionResult that extract_from_base64 returns carries
\* extraction_confidence, equal to the overall_confidence of the quality
\* metrics, and the quality metrics themselves.
C18_CarriesQuality ==
    outcome.result # None =>
        /\ "extraction_confidence" \in DOMAIN outcome.result[1]
        /\ "quality_metrics" \in DOMAIN outcome.result[1]
        /\ outcome.result[1].extraction_confidence
                = locals.quality_metrics[1].overall_confidence
        /\ outcome.result[1].quality_metrics = locals.quality_metrics[1]

(* ----------------- properties of the cached analysis ------------------ *)
\* C20: whenever analyze_pdf_structure returns after a cache miss, on the
\* normal path and on the error path alike, the cache maps the content
\* hash key to exactly the value returned (on the error path the analysis
\* with layout 'unknown' and confidence 0.5), also when the put evicted
\* the least recently used entry or cleared the cache for memory.
C20_MissIsCached ==
    (last.op = "analyze" /\ ~last.hit /\ last.exc = NoExc) =>
        /\ last.result # None
        /\ last.key[1] \in DOMAIN cache_manager.cache
        /\ cache_manager.cache[last.key[1]] = last.result[1]
        /\ ~last.doc[1].opens =>
              /\ last.result[1].layout_complexity = "unknown"
              /\ last.result[1].extraction_confidence = Scale \div 2

\* an analysis of bytes that do not open missed a full cache: its put
\* evicted the least recently used entry and then cleared the cache
C20_Witness ==
    /\ last.op = "analyze"
    /\ ~last.hit
    /\ ~last.doc[1].opens
    /\ last.full
    /\ last.evictions = 1
    /\ last.memory_exceeded
    /\ last.result = Some(error_analysis)

(* ------------------- properties of the classification ----------------- *)
\* what a generated word or line holds: its rideshare keywords, its bank
\* keywords, and how many tests of the table detector it passes
Holds(item) ==
    CASE item = "Bank" -> [rideshare |-> {}, bank |-> {"bank"}, indicators |-> 0]
      [] item = "deposit" -> [rideshare |-> {}, bank |-> {"deposit"}, indicators |-> 0]
      [] item = "account balance" -> [rideshare |-> {}, bank |-> {"account", "balance"}, indicators |-> 0]
      [] item = "uber" -> [rideshare |-> {"uber"}, bank |-> {}, indicators |-> 0]
      [] item = "Trip" -> [rideshare |-> {"trip"}, bank |-> {}, indicators |-> 0]
      [] item = "uber trip" -> [rideshare |-> {"uber", "trip"}, bank |-> {}, indicators |-> 0]
      [] item = "a   b" -> [rideshare |-> {}, bank |-> {}, indicators |-> 1]
      [] item = "Date" -> [rideshare |-> {}, bank |-> {}, indicators |-> 1]
      [] item = "01/02/2024 $5.00" -> [rideshare |-> {}, bank |-> {}, indicators |-> 1]
      [] item = "Date   01/02/2024   $5.00" -> [rideshare |-> {}, bank |-> {}, indicators |-> 3]
      [] OTHER -> [rideshare |-> {}, bank |-> {}, indicators |-> 0]

\* the occurrences of rideshare and bank keywords in the items, the distinct
\* keywords among them, the indicators and the lines that have one
RideshareWeighted(parts) == sum([i \in 1 .. Len(parts) |-> Cardinality(Holds(parts[i]).rideshare)])
RideshareDistinct(parts) == Cardinality(UNION {Holds(parts[i]).rideshare : i \in 1 .. Len(parts)})
BankWeighted(parts) == sum([i \in 1 .. Len(parts) |-> Cardinality(Holds(parts[i]).bank)])
BankDistinct(parts) == Cardinality(UNION {Holds(parts[i]).bank : i \in 1 .. Len(parts)})
Indicators(parts) == sum([i \in 1 .. Len(parts) |-> Holds(parts[i]).indicators])
IndicatorLines(parts) == Cardinality({i \in 1 .. Len(parts) : Holds(parts[i]).indicators > 0})

\* the ordered rule on those scores, the bank scores with the table boost
Classified(parts) ==
    LET table         == Indicators(parts) >= 3
        bank_weighted == BankWeighted(parts) + (IF table THEN 5 ELSE 0)
        bank_score    == BankDistinct(parts) + (IF table THEN 2 ELSE 0)
    IN  IF RideshareWeighted(parts) > bank_weighted /\ RideshareDistinct(parts) >= 2
        THEN "rideshare"
        ELSE IF bank_weighted >= 2 \/ bank_score >= 3 THEN "bank_statement"
             ELSE "general"

Generated == subject.kind \in {"words", "lines"}

\* C11: detect_document_type returns one of the three types for every text,
\* the one the ordered rule fixes: rideshare if the rideshare occurrences
\* outnumber the bank occurrences (boost included) and two distinct rideshare
\* keywords occur, else bank_statement if the bank occurrences are at least 2
\* or the distinct bank keywords at least 3, else general.  In particular a
\* text with two or more bank keyword occurrences and no rideshare keyword is
\* a bank_statement, and a text with two distinct rideshare keywords, no bank
\* keyword and no table is rideshare.
C11_OrderedRule ==
    applied.fn = "detect_document_type" =>
        /\ applied.out[1] \in {"bank_statement", "rideshare", "general"}
        /\ Generated =>
            /\ applied.out[1] = Classified(subject.parts)
            /\ (RideshareWeighted(subject.parts) = 0 /\ BankWeighted(subject.parts) >= 2)
                    => applied.out[1] = "bank_statement"
            /\ (/\ RideshareDistinct(subject.parts) >= 2
                /\ BankWeighted(subject.parts) = 0
                /\ Indicators(subject.parts) < 3) => applied.out[1] = "rideshare"

\* two distinct rideshare keywords beside one bank keyword: the first rule
\* of the order applies
C11_Witness ==
    /\ applied.fn = "detect_document_type"
    /\ subject.parts = <<"uber", "Bank", "Trip">>
    /\ applied.out = Some("rideshare")

\* C12 as stated: _detect_tables reports a table only when at least 3 lines
\* of the text are indicator lines
C12_AsStated ==
    (applied.fn = "_detect_tables" /\ Generated /\ applied.out[1])
        => IndicatorLines(subject.parts) >= 3

\* C12: _detect_tables reports a table only when the indicators counted over
\* the lines, one for each test a line passes (a run of 3+ whitespace, a
\* date-shaped with a money-shaped token, a header keyword), are at least 3;
\* a text with fewer gets no boost: without a bank keyword it is never a
\* bank_statement
C12_IndicatorsCounted ==
    /\ (applied.fn = "_detect_tables" /\ Generated /\ applied.out[1])
            => Indicators(subject.parts) >= 3
    /\ (/\ applied.fn = "detect_document_type" /\ Generated
        /\ Indicators(subject.parts) < 3
        /\ BankWeighted(subject.parts) = 0) => applied.out[1] # "bank_statement"

\* a table found in a single line that passes the three tests
C12_Witness ==
    /\ applied.fn = "_detect_tables"
    /\ subject.parts = <<"Date   01/02/2024   $5.00">>
    /\ applied.out = Some(TRUE)

\* C14: for the line of Scenario A the document is classified as a bank
\* statement and the bank extractor yields one transaction with date
\* 2024-02-01, credit 3000.00, no debit and description ACH Deposit - Salary
C14_ScenarioA ==
    subject.parts = <<ScenarioA>> =>
        /\ applied.fn = "detect_document_type" => applied.out[1] = "bank_statement"
        /\ applied.fn = "_extract_bank_data" =>
              applied.out[1] = <<[date |-> "2024-02-01",
                                  description |-> "ACH Deposit - Salary",
                                  debit |-> None, credit |-> Some(300000)]>>

\* C15: for a text with the line of Scenario B the classifier returns
\* rideshare and the rideshare extractor yields a trip with date 2024-10-05,
\* fare 12.50, tips 3.00 and total_earnings 15.50
C15_ScenarioB ==
    (subject.kind = "statement" /\ \E i \in 1 .. Len(subject.parts) : subject.parts[i] = ScenarioB) =>
        /\ applied.fn = "detect_document_type" => applied.out[1] = "rideshare"
        /\ applied.fn = "_extract_rideshare_data" =>
              \E k \in 1 .. Len(applied.out[1].trips) :
                  applied.out[1].trips[k] =
                      [date |-> "2024-10-05", fare |-> 1250, tips |-> Some(300),
                       total_earnings |-> 1550]

(* ------------------- properties of the normalisation ------------------ *)
\* s is YYYY-MM-DD
Canonical(s) ==
    /\ Len(s) = 10
    /\ \A i \in 1 .. 10 :
          IF i \in {5, 8} THEN CharAt(s, i) = "-" ELSE CharAt(s, i) \in Digit

\* the whole of s is what a pattern of date_patterns finds in it
Recognised(s) ==
    \E k \in 1 .. Len(date_patterns) :
        LET m == search(date_patterns[k], s)
        IN  m # NoMatch /\ group(m, s, 1) = s

\* the year a year field stands for: two digits are 1969..2068
YearNumber(y) ==
    IF Len(y) = 2 THEN (IF int(y) <= 68 THEN 2000 + int(y) ELSE 1900 + int(y))
    ELSE int(y)

\* year, month and day are a day of the calendar
IsDate(year, month, day) ==
    /\ year >= 1 /\ month \in 1 .. 12
    /\ day \in 1 .. DaysInMonth(year, month)

\* one of the formats reads the date string as a day of the calendar: day
\* or month first around / or - with four digits of year, or around / with
\* two; day first around dots; year first around / or -; a day and the
\* name of a month
Readable(s) ==
    CASE s.layout = "year_last" ->
            LET a == int(s.parts[1])
                b == int(s.parts[3])
                sep == s.parts[2]
                len == Len(s.parts[5])
                year == YearNumber(s.parts[5])
            IN  /\ s.parts[2] = s.parts[4]
                /\ \/ /\ (sep \in {"/", "-"} /\ len = 4) \/ (sep = "/" /\ len = 2)
                      /\ IsDate(year, b, a) \/ IsDate(year, a, b)
                   \/ /\ sep = "." /\ len \in {2, 4}
                      /\ IsDate(year, b, a)
      [] s.layout = "year_first" ->
            /\ s.parts[2] = s.parts[4] /\ s.parts[2] \in {"/", "-"}
            /\ IsDate(int(s.parts[1]), int(s.parts[3]), int(s.parts[5]))
      [] s.layout = "named" ->
            IsDate(int(s.parts[4]), MonthNumber(s.parts[3]), int(s.parts[1]))
      [] OTHER -> s.text \in {" 12/12/2024 ", "5Jan2024"}

\* the year the formats read in the date string
YearRead(s) ==
    CASE s.layout = "year_last" -> YearNumber(s.parts[5])
      [] s.layout = "year_first" -> int(s.parts[1])
      [] s.layout = "named" -> int(s.parts[4])
      [] OTHER -> 2024

\* the date string without its ordinal suffix
Unsuffixed(s) ==
    IF s.layout = "named"
    THEN s.parts[1] \o " " \o s.parts[3] \o " " \o s.parts[4]
    ELSE s.text

Normalized == applied.fn = "_normalize_date"

\* C16 as stated: every string a date recognizer matches is returned in
\* canonical form, and normalising the result again returns the same string
C16_AsStated ==
    Normalized =>
        /\ Recognised(subject.text) => Canonical(applied.out[1])
        /\ applied.again # None => applied.again = applied.out

\* C16: a string a date recognizer matches and one of the formats reads as
\* a day of the calendar, its year written with two digits or not before
\* 1000, is returned in canonical form; a string no format reads so is
\* returned unchanged but for the ordinal suffix taken off its day; and on a
\* string a recognizer matches normalising again returns the same string
C16_ReadableIsCanonical ==
    Normalized =>
        /\ (Recognised(subject.text) /\ Readable(subject) /\ YearRead(subject) >= 1000)
                => Canonical(applied.out[1])
        /\ (~Readable(subject) /\ subject.layout # "other")
                => applied.out[1] = Unsuffixed(subject)
        /\ (Recognised(subject.text) /\ applied.again # None)
                => applied.again = applied.out

\* a matched date only a month-first format reads, normalised twice
C16_Witness ==
    /\ Normalized
    /\ subject.parts = <<"02", "/", "13", "/", "2024">>
    /\ Recognised(subject.text)
    /\ applied.out = Some("2024-02-13")
    /\ applied.again = Some("2024-02-13")

(* ---------------------- properties of the amounts --------------------- *)
\* the number of an amount string, and its digits before the decimal point
NumberText(parts) ==
    parts[2] \o join("", [i \in 1 .. Len(parts) - 3 |-> "," \o parts[i + 3]])
        \o "." \o parts[3]
WholeDigits(parts) == parts[2] \o join("", SubSeq(parts, 4, Len(parts)))

\* format(value, ',.2f') of a value in hundredths
RECURSIVE Grouped(_)
Grouped(n) ==
    IF n < 1000 THEN Decimal(n, 1)
    ELSE Grouped(n \div 1000) \o "," \o Decimal(n % 1000, 3)
Formatted(value) == Grouped(value \div 100) \o "." \o Decimal(value % 100, 2)

\* C17: for an amount string with thousands separators and two decimals,
\* with a currency symbol or without, _extract_amount_improved returns the
\* value of its digits, and formatting that value gives back the number
C17_RoundTrip ==
    applied.fn = "_extract_amount_improved" =>
        /\ applied.out[1] = 100 * int(WholeDigits(subject.parts)) + int(subject.parts[3])
        /\ Formatted(applied.out[1]) = NumberText(subject.parts)

\* $12,234.56 parsed as 12234.56
C17_Witness ==
    /\ applied.fn = "_extract_amount_improved"
    /\ subject.text = "$12,234.56"
    /\ applied.out = Some(1223456)

(* ---------------------- properties of the endpoint -------------------- *)
\* C19: the answer is 400 exactly when the content does not decode or
\* decodes to zero bytes; content that decodes and makes the extractor raise
\* its ValueError is answered 422; 500 answers no HTTPException and no
\* ValueError; an HTTPException leaves with the status it was raised with
C19_StatusCodes ==
    http # NoResponse =>
        /\ http.status_code = 400 <=> (~request.decodes \/ request.empty)
        /\ (request.decodes /\ ~request.empty /\ outcome.error # None)
                => http.status_code = 422
        /\ http.status_code = 500
                => (http.exc # None /\ http.exc[1].type \notin {"HTTPException", "ValueError"})
        /\ (http.exc # None /\ http.exc[1].type = "HTTPException")
                => http.status_code = http.exc[1].status_code

\* zero bytes of content answered 400
C19_Witness ==
    /\ request.decodes /\ request.empty
    /\ http = [status_code |-> 400, exc |-> Some(HTTPException(400))]

(* ------------------- properties of put on a stored key ----------------- *)
\* the latest call was a put of a key that was stored before it, with the
\* memory threshold not exceeded
UpdatingPut ==
    /\ last.op = "put"
    /\ ~last.memory_exceeded
    /\ last.stored

\* C29: a put of a key that is already stored (memory threshold not
\* exceeded) leaves the key stored and most recently used, removes no
\* other key and does not increment the eviction counter, also when the
\* cache holds exactly max_size entries.
C29_UpdateInPlace ==
    UpdatingPut =>
        /\ Range(last.key) \subseteq StoredKeys(cache_manager)
        /\ cache_manager.access_order # <<>>
        /\ <<cache_manager.access_order[Len(cache_manager.access_order)]>> = last.key
        /\ last.removed = {}
        /\ last.evictions = 0

(* ---------------------- properties of the repair budget ---------------- *)
\* neither the bytes of the request nor their cleaned form open
NeverOpens == ~request.doc.opens /\ ~request.doc.cleaned_opens

\* C21: on a document on which every open attempt fails, the calls of
\* extract_text_from_pdf and _repair_and_retry make at most 3 repair
\* retries and at most 4 open attempts in total before the failure is
\* raised to the caller.
C21_FourOpens ==
    (request.decodes /\ NeverOpens) =>
        /\ run.repairs <= text_repair_attempts
        /\ run.opens <= text_repair_attempts + 1

(* ------------------------ properties of tied scores -------------------- *)
\* the weighted bank score of the items, table boost included
BoostedBankWeighted(parts) ==
    BankWeighted(parts) + (IF Indicators(parts) >= 3 THEN 5 ELSE 0)

\* detect_document_type ran on a generated text whose weighted scores tie
Tied ==
    /\ applied.fn = "detect_document_type"
    /\ Generated
    /\ RideshareWeighted(subject.parts) = BoostedBankWeighted(subject.parts)

\* C22 as stated: when the weighted rideshare score equals the weighted
\* bank score, detect_document_type returns general, whatever the tied
\* score and the unweighted scores.
C22_AsStated == Tied => applied.out[1] = "general"

\* C22: when the weighted rideshare score equals the weighted bank score,
\* detect_document_type returns general if the tied score is below 2 and
\* bank_statement if it is 2 or more, whatever the unweighted scores.
C22_TieBelowTwo ==
    Tied => applied.out[1] = (IF RideshareWeighted(subject.parts) < 2
                              THEN "general" ELSE "bank_statement")

\* a tie at 2 with two distinct rideshare keywords, classified as a bank
\* statement
C22_Witness ==
    /\ Tied
    /\ subject.parts = <<"uber", "Trip", "account balance">>
    /\ applied.out = Some("bank_statement")

(* --------------------- properties of debit and credit ------------------ *)
\* what a generated transaction line holds
Cues(parts) == {parts[i] : i \in 3 .. Len(parts)}
HasMinus(parts) == parts[1] = "-"
LineAmount(parts) == IF parts[2] = "$5.00" THEN 500 ELSE 0

\* the line was parsed into a BankTransaction
ParsedBankLine ==
    /\ applied.fn = "_parse_bank_line"
    /\ applied.out # None
    /\ applied.out[1] # None

\* C23: for a line parsed into a BankTransaction, a debit keyword gives
\* debit, a credit keyword gives credit, a minus sign overrides to debit
\* (debit set, credit None); without keyword and minus sign a secondary
\* keyword gives debit and otherwise the amount is the credit
C23_SignResolution ==
    ParsedBankLine =>
        LET txn    == applied.out[1][1]
            amount == Some(LineAmount(subject.parts))
            minus  == HasMinus(subject.parts)
            cues   == Cues(subject.parts)
        IN  /\ ("Fee" \in cues => txn.debit = amount)
            /\ ("Refund" \in cues /\ ~minus => txn.credit = amount)
            /\ (minus => txn.debit = amount /\ txn.credit = None)
            /\ (~minus /\ "Fee" \notin cues /\ "Refund" \notin cues =>
                    IF "ATM" \in cues
                    THEN txn.debit = amount /\ txn.credit = None
                    ELSE txn.credit = amount /\ txn.debit = None)

\* C24: every BankTransaction the bank extractor produces has at most one
\* of debit and credit populated
C24_AtMostOne ==
    ParsedBankLine =>
        applied.out[1][1].debit = None \/ applied.out[1][1].credit = None

(* ---------------------- properties of the sign heuristic --------------- *)
\* the amount of a generated line, in hundredths
WrittenAmount(parts) == IF parts[3] = "$5.00" THEN 500 ELSE 1250

\* the amount of a generated line was extracted
ExtractedFromLine ==
    /\ applied.fn = "_extract_amount_improved"
    /\ subject.kind = "amount_line"

\* C25: the amount of the first match of the first matching pattern is
\* made negative if the line holds an outflow word or starts with a minus
\* sign, and keeps its parsed value if it does neither
C25_SignHeuristic ==
    ExtractedFromLine =>
        applied.out[1] =
            (IF subject.parts[2] = "fee " \/ subject.parts[1] = "-"
             THEN 0 - WrittenAmount(subject.parts)
             ELSE WrittenAmount(subject.parts))

(* ------------------------- the general extractor ---------------------- *)
ExtractedGeneral ==
    applied # NotApplied /\ applied.fn = "_extract_general_transactions"

\* the rows of the text that one of the date patterns matches
DatedRows ==
    {i \in 2 .. Len(subject.parts) : AnySearch(date_patterns, subject.parts[i])}

\* C26: every record of the general extractor has an amount other than 0
\* and a description of more than 2 characters, and a row that no date
\* pattern matches yields no record: there are no more records than rows
\* with a date
C26_RecordsAreSound ==
    ExtractedGeneral =>
        /\ \A i \in DOMAIN applied.out[1] :
              /\ applied.out[1][i].amount # 0
              /\ Len(applied.out[1][i].description) > 2
        /\ Len(applied.out[1]) <= Cardinality(DatedRows)

(* ------------------------- the quality metrics ------------------------ *)
\* _calculate_extraction_quality has been called on one or more records
ScoredRecords ==
    /\ stage \in {"build", "except", "done"}
    /\ locals.transactions # <<>>

SubScores ==
    {"data_completeness", "date_validity", "amount_validity",
     "description_quality", "consistency_score"}

\* C27: for a list of one or more records _calculate_extraction_quality
\* returns metrics: every sub-score is a fraction between 0 and 1, and
\* overall_confidence is 0.3 base_confidence + 0.2 data_completeness
\* + 0.2 date_validity + 0.15 amount_validity + 0.1 description_quality
\* + 0.05 consistency_score
C27_QualityScores ==
    ScoredRecords =>
        /\ locals.quality_metrics # None
        /\ \A score \in SubScores : locals.quality_metrics[1][score] \in 0 .. Scale
        /\ locals.quality_metrics[1].overall_confidence =
              (30 * locals.pdf_analysis[1].extraction_confidence
                 + 20 * locals.quality_metrics[1].data_completeness
                 + 20 * locals.quality_metrics[1].date_validity
                 + 15 * locals.quality_metrics[1].amount_validity
                 + 10 * locals.quality_metrics[1].description_quality
                 + 5 * locals.quality_metrics[1].consistency_score) \div 100

(* ------------------------ the route of tabular text -------------------- *)
Structured ==
    applied # NotApplied /\ applied.fn = "extract_structured_data"

\* C28: when the table detector fires on a text the classifier does not
\* return 'general', extract_structured_data hands the text to the bank
\* or the rideshare extractor, and no run of extract_structured_data
\* reaches _extract_from_table_structure
C28_TablesNeverGeneral ==
    /\ (applied.fn = "detect_document_type" /\ _detect_tables(subject.text)) =>
           applied.out[1] # "general"
    /\ (Structured /\ _detect_tables(subject.text)) =>
           applied.out[1].extractor \in {"_extract_bank_data", "_extract_rideshare_data"}
    /\ Structured => ~applied.out[1].table_structure

\* a text with a table and fewer than two bank keywords has gone to the
\* bank extractor
C28_Witness ==
    /\ Structured
    /\ _detect_tables(subject.text)
    /\ keyword_weighted(bank_keywords, lower(subject.text)) < 2
    /\ applied.out[1].extractor = "_extract_bank_data"

(* --------------------- the conversion to RawTransaction ---------------- *)
Converted ==
    /\ applied # NotApplied /\ applied.fn = "extract_structured_data"
    /\ applied.again # None

\* C30: the conversion gives one record per transaction or trip, in the
\* same order and with the same date; a transaction with only a credit
\* c > 0 gets the amount c, one with only a debit d > 0 the amount -d, a
\* trip the amount total_earnings; and no record has the amount 0
C30_Conversion ==
    Converted =>
        LET structured_data == applied.out[1]
            transactions == applied.again[1]
        IN  /\ Len(transactions) = Len(structured_data.transactions)
            /\ \A i \in DOMAIN transactions :
                  LET txn == structured_data.transactions[i]
                  IN  /\ transactions[i].date = txn.date
                      /\ structured_data.type = "RideshareTaxSummary" =>
                             transactions[i].amount = txn.total_earnings
                      /\ structured_data.type = "TransactionList" =>
                             /\ (txn.debit = None /\ txn.credit # None /\ txn.credit[1] > 0)
                                    => transactions[i].amount = txn.credit[1]
                             /\ (txn.credit = None /\ txn.debit # None /\ txn.debit[1] > 0)
                                    => transactions[i].amount = 0 - txn.debit[1]
                      /\ transactions[i].amount # 0

====
